---- MODULE Spec2Model ----
(***************************************************************************)
(* Diagnosis-candidate ranking engine (src/diagnosis.py).                  *)
(*                                                                         *)
(* Numbers: every score, weight, threshold and penalty is a fixed-point    *)
(* integer in units of 1/10000 (One = 1.0).  Classifier scores and rule    *)
(* weights are multiples of 0.001, lexical similarities have four          *)
(* decimals, so every product below is exact and round(total, 3) is the    *)
(* only place where precision is lost.                                     *)
(***************************************************************************)
EXTENDS Integers, Sequences, FiniteSets, TLC

VARIABLES
    cache,      \* _CACHE: the in-memory response cache {"coarse": .., "fine": ..}
    disk,       \* content of the file AI_CACHE_FN (diagnosis_ai_cache.json)
    prev,       \* gateway harness: the classification call before the last one
    last,       \* gateway harness: the last classification call and what it did
    ncalls,     \* gateway harness: number of classification calls issued
    pc,         \* position of the process running main()
    cfg,        \* configuration read from the environment at import
    files,      \* the inputs on disk: assessment text and catalogue source
    assess,     \* the assessment read by read_assess_and_so()
    rows,       \* the catalogue rows returned by load_nanda_rows()
    task,       \* per row: state of its worker task in the running stage
    expired,    \* the running stage's as_completed() timed out
    ai_coarse_s, \* collect's ai_coarse_s list
    fine_pool,  \* collect's fine_pool
    fine_res,   \* per row: the fine result collect received, if any
    service,    \* "offline": unreachable for the whole run; "online": each
                \* contact may succeed or fail
    ret,        \* the list collect() returned
    result_txt, \* content of RESULT_TXT
    result_json, \* content of RESULT_JSON
    exc,        \* the exception that left main(), "" while there is none
    inp,        \* function harness: the arguments drawn for one application
    outp,       \* function harness: what the function returned for them
    nanda_xlsx, \* catalogue harness: the file NANDA_XLSX
    rows_cache, \* catalogue harness: the file ROWS_CACHE
    vec_cache,  \* catalogue harness: the file VEC_CACHE
    loaded      \* catalogue harness: what load_nanda_rows and
                \* build_definition_space returned to the running process

gwVars == <<prev, last, ncalls>>
unitVars == <<inp, outp>>
catVars == <<nanda_xlsx, rows_cache, vec_cache, loaded>>
pipeVars == <<pc, cfg, files, assess, rows, task, expired, ai_coarse_s, fine_pool,
              fine_res, service, ret, result_txt, result_json, exc>>
vars == <<cache, disk, prev, last, ncalls, pc, cfg, files, assess, rows, task,
          expired, ai_coarse_s, fine_pool, fine_res, service, ret, result_txt,
          result_json, exc, inp, outp, nanda_xlsx, rows_cache, vec_cache, loaded>>

----------------------------------------------------------------------------
(* Fixed point *)

One == 10 * 1000

Mul(w, x) == (w * x) \div One

Min2(a, b) == IF a <= b THEN a ELSE b
Max2(a, b) == IF a >= b THEN a ELSE b

----------------------------------------------------------------------------
(* Parameters of src/diagnosis.py *)

COARSE_MIN_PASS == 3000
FINE_MIN_PASS == 3500
W_DEF_SIM == 20000
W_COARSE_AI == 35000
W_FINE_AI == 45000
RETRY == 1
OLLAMA_MODEL == "qwen2.5:7b-instruct"

----------------------------------------------------------------------------
(* The external classification service.                                    *)
(* One chat attempt of ask_ollama_json ends in one of these:               *)
(*   fail    _ollama_chat returned "" (unreachable, timeout, HTTP error)   *)
(*           or text json.loads cannot parse: the attempt is retried       *)
(*   falsy   JSON that is not an object and is falsy (null, [], 0, "")     *)
(*   nonobj  JSON that is not an object and is truthy ([1], 0.7, "x")      *)
(*   obj     a JSON object; its "score" and "matched" fields are absent,   *)
(*           well typed, or of an unexpected type                          *)

ScoreVals == {5000, 15000}

RawItems == {"dyspnea", " dyspnea ", " "}

NoEv == [dc |-> <<>>, rf |-> <<>>, rk |-> <<>>]

AbsentScore == [t |-> "absent", v |-> 0]
BadScore == [t |-> "bad", v |-> 0]
NumScore(v) == [t |-> "num", v |-> v]

AbsentMatched == [t |-> "absent", ev |-> NoEv]
BadMatched == [t |-> "bad", ev |-> NoEv]
OkMatched(ev) == [t |-> "ok", ev |-> ev]

MatchedVals ==
    { AbsentMatched, BadMatched,
      OkMatched([dc |-> <<" dyspnea ">>, rf |-> <<>>, rk |-> <<" ">>]) }

FailReply == [kind |-> "fail", score |-> AbsentScore, matched |-> AbsentMatched]
FalsyReply == [kind |-> "falsy", score |-> AbsentScore, matched |-> AbsentMatched]
NonObjReply == [kind |-> "nonobj", score |-> AbsentScore, matched |-> AbsentMatched]
NoneData == [kind |-> "none", score |-> AbsentScore, matched |-> AbsentMatched]
EmptyObj == [kind |-> "obj", score |-> AbsentScore, matched |-> AbsentMatched]
ObjReply(s, m) == [kind |-> "obj", score |-> s, matched |-> m]

CoarseReplies ==
    {FailReply, FalsyReply, NonObjReply}
    \cup {ObjReply(s, AbsentMatched) :
            s \in {AbsentScore, BadScore} \cup {NumScore(v) : v \in ScoreVals}}

FineReplies ==
    {FailReply, FalsyReply, NonObjReply}
    \cup {ObjReply(s, m) :
            s \in {AbsentScore, BadScore} \cup {NumScore(v) : v \in ScoreVals},
            m \in MatchedVals}

\* the replies to the chat attempts one classification call makes: at most
\* n attempts, a further one only after a failed one
RECURSIVE AttemptsUpTo(_, _)
AttemptsUpTo(R, n) ==
    IF n <= 1 THEN {<<r>> : r \in R}
    ELSE {<<r>> : r \in R \ {FailReply}}
         \cup {<<FailReply>> \o t : t \in AttemptsUpTo(R, n - 1)}

Attempts(R) == AttemptsUpTo(R, RETRY + 1)

----------------------------------------------------------------------------
(* nfkc(x).strip() on the evidence items the service may return *)

NfkcStrip(x) ==
    CASE x = " dyspnea " -> "dyspnea"
      [] x = " " -> ""
      [] OTHER -> x

RECURSIVE CleanItems(_)
CleanItems(xs) ==
    IF xs = <<>> THEN <<>>
    ELSE IF NfkcStrip(Head(xs)) = "" THEN CleanItems(Tail(xs))
         ELSE <<NfkcStrip(Head(xs))>> \o CleanItems(Tail(xs))

----------------------------------------------------------------------------
(* Text.  A text is a sequence of characters; the alphabet keeps one       *)
(* character of each class norm() treats differently: "a" "b" "i"          *)
(* lower-case letters, "A" an upper-case letter, "FA" the full-width       *)
(* letter U+FF21 (NFKC: "A"), " " a space, "IS" the ideographic space      *)
(* U+3000 (NFKC: " "), "DI" the dotted capital U+0130 (NFKC leaves it,     *)
(* its lower case is "i" followed by the combining dot above), "dot" the   *)
(* combining dot above U+0307 (combining class 230) and "cb" the combining *)
(* grave below U+0316 (combining class 220).                               *)

Alphabet == {"a", "b", "i", "A", "FA", " ", "IS", "DI", "dot", "cb"}

IsSpace(c) == c \in {" ", "IS"}

nfkcChar(c) ==
    CASE c = "FA" -> "A"
      [] c = "IS" -> " "
      [] OTHER -> c

lowerChar(c) == IF c = "A" THEN "a" ELSE c

\* canonical ordering: in a run of combining marks the lower class comes
\* first
RECURSIVE CanonicalOrder(_)
CanonicalOrder(s) ==
    IF \E k \in 1..(Len(s) - 1) : s[k] = "dot" /\ s[k + 1] = "cb"
    THEN LET k == CHOOSE k \in 1..(Len(s) - 1) : s[k] = "dot" /\ s[k + 1] = "cb"
         IN  CanonicalOrder([s EXCEPT ![k] = "cb", ![k + 1] = "dot"])
    ELSE s

\* unicodedata.normalize("NFKC", s)
nfkc(s) == CanonicalOrder([i \in 1..Len(s) |-> nfkcChar(s[i])])

\* str.lower(): one character may become two
RECURSIVE lower(_)
lower(s) ==
    IF s = <<>> THEN <<>>
    ELSE (IF Head(s) = "DI" THEN <<"i", "dot">> ELSE <<lowerChar(Head(s))>>)
         \o lower(Tail(s))

\* re.sub(r"[\u3000\s]+", " ", t)
RECURSIVE CollapseSpaces(_)
CollapseSpaces(s) ==
    IF s = <<>> THEN <<>>
    ELSE IF IsSpace(Head(s))
         THEN IF Len(s) > 1 /\ IsSpace(s[2]) THEN CollapseSpaces(Tail(s))
              ELSE <<" ">> \o CollapseSpaces(Tail(s))
         ELSE <<Head(s)>> \o CollapseSpaces(Tail(s))

RECURSIVE StripLeft(_)
StripLeft(s) ==
    IF s # <<>> /\ IsSpace(Head(s)) THEN StripLeft(Tail(s)) ELSE s

RECURSIVE StripRight(_)
StripRight(s) ==
    IF s # <<>> /\ IsSpace(s[Len(s)]) THEN StripRight(SubSeq(s, 1, Len(s) - 1)) ELSE s

strip(s) == StripRight(StripLeft(s))

norm(s) == IF s = <<>> THEN <<>> ELSE strip(CollapseSpaces(lower(nfkc(s))))

----------------------------------------------------------------------------
(* Response cache *)

EmptyCache == [coarse |-> <<>>, fine |-> <<>>]

HasKey(m, k) == k \in DOMAIN m

Put(m, k, v) == [x \in (DOMAIN m) \cup {k} |-> IF x = k THEN v ELSE m[x]]

\* the sha1 digest of the joined fields is modelled by the fields themselves
coarse_key(text, label, definition) ==
    <<OLLAMA_MODEL, norm(text), norm(label), norm(definition)>>

fine_key(text, label, definition, dc, rf, rk) ==
    <<OLLAMA_MODEL, norm(text), norm(label), norm(definition), dc, rf, rk>>

\* load_cache() followed by the two setdefault calls
load_cache(d) == IF d.exists THEN d.content ELSE EmptyCache

\* save_cache(c)
save_cache(c) == [exists |-> TRUE, content |-> c]

NoFile == [exists |-> FALSE, content |-> EmptyCache]

----------------------------------------------------------------------------
(* ask_ollama_json: the first attempt that parses is returned, None after  *)
(* RETRY+1 attempts that do not                                            *)

RECURSIVE AskFrom(_, _)
AskFrom(replies, i) ==
    IF i > Len(replies) THEN [data |-> NoneData, posts |-> Len(replies)]
    ELSE IF replies[i].kind # "fail" THEN [data |-> replies[i], posts |-> i]
         ELSE AskFrom(replies, i + 1)

ask_ollama_json(replies) == AskFrom(replies, 1)

\* `x or {}`
OrEmpty(data) == IF data.kind \in {"none", "falsy"} THEN EmptyObj ELSE data

\* float(data.get("score", 0.0) or 0.0) raises on a non-object and on a
\* score that is no number
ScoreRaises(data) == data.kind = "nonobj" \/ data.score.t = "bad"

ScoreOf(data) == IF data.score.t = "num" THEN data.score.v ELSE 0

\* data.get("matched", {}) or {} and the three list comprehensions
MatchedRaises(data) == data.matched.t = "bad"

EvOf(data) ==
    [dc |-> CleanItems(data.matched.ev.dc),
     rf |-> CleanItems(data.matched.ev.rf),
     rk |-> CleanItems(data.matched.ev.rk)]

Clamp01(s) == Max2(0, Min2(One, s))

----------------------------------------------------------------------------
(* ai_coarse / ai_fine.  The result says what the call returned (ret, ev), *)
(* whether it raised, the cache it leaves, and what it did on the way:     *)
(* hit (answered from the cache), probes (ollama_available calls), asks    *)
(* (ask_ollama_json calls), posts (chat attempts), failed (the service     *)
(* gave no parsed answer).                                                 *)

Outcome(raised, value, ev, c, hit, probes, asks, posts, failed) ==
    [raised |-> raised, ret |-> value, ev |-> ev, cache |-> c, hit |-> hit,
     probes |-> probes, asks |-> asks, posts |-> posts, failed |-> failed]

CoarseHit(c, key) == Outcome(FALSE, c.coarse[key], NoEv, c, TRUE, 0, 0, 0, FALSE)

\* a gateway that returns the service's answer without storing it
CoarseMissNoStore(c, key, avail, replies) ==
    IF ~avail THEN Outcome(FALSE, 0, NoEv, c, FALSE, 1, 0, 0, TRUE)
    ELSE LET a == ask_ollama_json(replies)
             data == OrEmpty(a.data)
         IN  Outcome(ScoreRaises(data), IF ScoreRaises(data) THEN 0 ELSE ScoreOf(data),
                     NoEv, c, FALSE, 1, 1, a.posts, a.data.kind = "none")

CoarseMiss(c, key, avail, replies) ==
    IF ~avail THEN Outcome(FALSE, 0, NoEv, c, FALSE, 1, 0, 0, TRUE)
    ELSE LET a == ask_ollama_json(replies)
             data == OrEmpty(a.data)
             failed == a.data.kind = "none"
         IN  IF ScoreRaises(data)
             THEN Outcome(TRUE, 0, NoEv, c, FALSE, 1, 1, a.posts, failed)
             ELSE Outcome(FALSE, ScoreOf(data), NoEv,
                          [c EXCEPT !.coarse = Put(c.coarse, key, ScoreOf(data))],
                          FALSE, 1, 1, a.posts, failed)

ai_coarse(c, key, avail, replies) ==
    IF HasKey(c.coarse, key) THEN CoarseHit(c, key)
    ELSE CoarseMiss(c, key, avail, replies)

FineHit(c, key) ==
    Outcome(FALSE, c.fine[key].score,
            [dc |-> c.fine[key].dc, rf |-> c.fine[key].rf, rk |-> c.fine[key].rk],
            c, TRUE, 0, 0, 0, FALSE)

FineRet(score) == Clamp01(score)

FineEntry(score, ev) == [score |-> score, dc |-> ev.dc, rf |-> ev.rf, rk |-> ev.rk]

FineMiss(c, key, avail, replies) ==
    IF ~avail THEN Outcome(FALSE, 0, NoEv, c, FALSE, 1, 0, 0, TRUE)
    ELSE LET a == ask_ollama_json(replies)
             data == OrEmpty(a.data)
             failed == a.data.kind = "none"
         IN  IF ScoreRaises(data) \/ MatchedRaises(data)
             THEN Outcome(TRUE, 0, NoEv, c, FALSE, 1, 1, a.posts, failed)
             ELSE Outcome(FALSE, FineRet(ScoreOf(data)), EvOf(data),
                          [c EXCEPT !.fine =
                              Put(c.fine, key, FineEntry(ScoreOf(data), EvOf(data)))],
                          FALSE, 1, 1, a.posts, failed)

ai_fine(c, key, avail, replies) ==
    IF HasKey(c.fine, key) THEN FineHit(c, key)
    ELSE FineMiss(c, key, avail, replies)

----------------------------------------------------------------------------
(* Gateway harness: a caller that issues classification requests one after *)
(* the other in one process and records the last two calls.                *)

MaxCalls == 2

Requests ==
    [assess : {<<"a", "b">>},
     label : {<<"A">>, <<"FA", " ">>, <<"b">>},
     definition : {<<"b", "IS", " ", "a">>},
     dc : {<<"dyspnea">>}, rf : {<<>>}, rk : {<<>>}]

NoReq ==
    [assess |-> <<>>, label |-> <<>>, definition |-> <<>>,
     dc |-> <<>>, rf |-> <<>>, rk |-> <<>>]

NoCall ==
    [fn |-> "none", req |-> NoReq, raised |-> FALSE, ret |-> 0, ev |-> NoEv,
     hit |-> FALSE, probes |-> 0, asks |-> 0, posts |-> 0, failed |-> FALSE,
     degraded |-> FALSE, wrote |-> FALSE]

\* the service behaviours under which the gateway is to degrade to 0.0
Degraded(fn, avail, replies) ==
    \/ ~avail
    \/ LET d == ask_ollama_json(replies).data
       IN  \/ d.kind \in {"none", "falsy", "nonobj"}
           \/ d.score.t = "bad"
           \/ fn = "fine" /\ d.matched.t = "bad"

CallRecord(fn, req, o, degraded, before) ==
    [fn |-> fn, req |-> req, raised |-> o.raised, ret |-> o.ret, ev |-> o.ev,
     hit |-> o.hit, probes |-> o.probes, asks |-> o.asks, posts |-> o.posts,
     failed |-> o.failed, degraded |-> (~o.hit /\ degraded),
     wrote |-> (o.cache # before)]

----------------------------------------------------------------------------
(* Parameters of the ranking *)

\* The run is configured with DIAG_AI_TOPK=2, DIAG_SHOW_N=1 and both stage
\* budgets set (DIAG_COARSE_BUDGET_SEC=1, DIAG_FINE_BUDGET_SEC=1).  A run in
\* which no budget expires is also a run of the default configuration, where
\* the budgets are 0.
AI_TOPK == 2
COARSE_CONCURRENCY == 4
FINE_CONCURRENCY == 3
COARSE_BUDGET_SEC == 1
FINE_BUDGET_SEC == 1
\* FUZZY_THRESHOLD (0.86)
FUZZY_THRESHOLD == 8600

\* the default of the width parameter of _is_ok_window, in characters
WINDOW == 12

MIN_DEF_SIM_KEEP == 500
MIN_RULE_SCORE_KEEP == 6000
SHOW_N == 1
OUT_TOP_FRAC == 2000
W_RULE_DC == 16000
W_RULE_RF == 12000
W_RULE_RK == 14000
W_HINT_RESP == 10000
W_CAT_MATCH == 8000
P_SETTING_MISMATCH == 8000
P_MIN_HITS_WEAK == 8000
P_CONTRADICT == 10000
EARLY_ACCEPT == 8200
REL_MIN_DEF_SIM == 1200
REL_MIN_RULE == 15000
REL_MIN_TOTAL == 20000
STRICT_SEX_FILTER == TRUE
STRICT_AGE_FILTER == TRUE
STRICT_CATEGORY == TRUE
STRICT_CARETARGET == TRUE

----------------------------------------------------------------------------
(* Inputs.  A catalogue row and an assessment carry, next to their texts,  *)
(* the features the regular expressions and keyword tables of the source   *)
(* extract from them:                                                      *)
(*   row.sexWords     female / male vocabulary in label, definition, site  *)
(*   row.care_family  care_target names family or caregivers               *)
(*   row.cats         extract_categories_from_row(row)                     *)
(*   row.settings     the SETTING_KW keys penalty_setting finds            *)
(*   row.state        "risk" / "problem" words in diagnosis_state          *)
(*   row.hint         "resp" / "circ" words in priority_hint               *)
(*   row.def_sim      cos_dict(assess_vec, def_vecs[i]) for the assessment *)
(*   assess.affirmed / assess.negated                                      *)
(*                    the terms fuzzy_hits_with_polarity finds in the text *)
(*                    outside / inside a negation window                   *)

NoAge == [known |-> FALSE, v |-> 0]
Age(n) == [known |-> TRUE, v |-> n]

NoVital == [known |-> FALSE, v |-> 0]
Vital(n) == [known |-> TRUE, v |-> n]

RowResp ==
    [label |-> <<"a">>, definition |-> <<"b">>,
     dc |-> <<"dyspnea">>, rf |-> <<>>, rk |-> <<>>,
     state |-> {"problem"}, hint |-> {"resp"}, cats |-> {"resp"},
     aboutResp |-> TRUE, aboutPain |-> FALSE, painLabel |-> FALSE,
     sexWords |-> {}, age_min |-> NoAge, age_max |-> NoAge,
     care_family |-> FALSE, settings |-> {"ICU"}, def_sim |-> 1234]

\* the same label and definition up to width, case and spaces
RowRespRisk ==
    [label |-> <<"FA", " ">>, definition |-> <<"b">>,
     dc |-> <<>>, rf |-> <<>>, rk |-> <<"smoking">>,
     state |-> {"risk"}, hint |-> {}, cats |-> {"resp"},
     aboutResp |-> TRUE, aboutPain |-> FALSE, painLabel |-> FALSE,
     sexWords |-> {}, age_min |-> Age(65), age_max |-> NoAge,
     care_family |-> FALSE, settings |-> {}, def_sim |-> 1234]

RowFemale ==
    [label |-> <<"b">>, definition |-> <<"a", "IS", "b">>,
     dc |-> <<"fever">>, rf |-> <<>>, rk |-> <<>>,
     state |-> {"problem"}, hint |-> {}, cats |-> {},
     aboutResp |-> FALSE, aboutPain |-> TRUE, painLabel |-> TRUE,
     sexWords |-> {"female"}, age_min |-> NoAge, age_max |-> NoAge,
     care_family |-> TRUE, settings |-> {}, def_sim |-> 300]

RowPool == {RowResp, RowRespRisk, RowFemale}

MaxRows == 2

Catalogues == UNION {[1..n -> RowPool] : n \in 0..MaxRows}

AssessHypoxic ==
    [text |-> <<"a", "b">>,
     demo |-> [sex |-> "M", age |-> Age(70), has_family |-> FALSE],
     cats |-> {"resp"}, settings |-> {},
     SpO2 |-> Vital(88), MAP |-> Vital(60), RR |-> NoVital, NRS |-> NoVital,
     affirmed |-> {"dyspnea"}, negated |-> {"fever"},
     respWords |-> TRUE, painWords |-> FALSE]

AssessPlain ==
    [text |-> <<"b">>,
     demo |-> [sex |-> "none", age |-> NoAge, has_family |-> TRUE],
     cats |-> {}, settings |-> {"ICU"},
     SpO2 |-> Vital(97), MAP |-> NoVital, RR |-> NoVital, NRS |-> Vital(8),
     affirmed |-> {}, negated |-> {},
     respWords |-> FALSE, painWords |-> FALSE]

NoAssess ==
    [text |-> <<>>,
     demo |-> [sex |-> "none", age |-> NoAge, has_family |-> FALSE],
     cats |-> {}, settings |-> {},
     SpO2 |-> NoVital, MAP |-> NoVital, RR |-> NoVital, NRS |-> NoVital,
     affirmed |-> {}, negated |-> {},
     respWords |-> FALSE, painWords |-> FALSE]

Assessments == {AssessHypoxic, AssessPlain}

----------------------------------------------------------------------------
(* The matcher on the characters of the text.  A character is written by  *)
(* its reading: <<"hatsu", "netsu">> is the two characters of the word    *)
(* for fever, <<"na", "shi">> the two of the word for "none".            *)

\* the alternatives of OK_WORDS
OK_WORDS ==
    {<<"na", "shi">>, <<"na", "ii">>, <<"ryo", "kou">>, <<"yui", "ji">>,
     <<"tamo", "ta">>, <<"sei", "jou">>, <<"an", "tei">>,
     <<"mon", "dai", "na", "shi">>, <<"mi", "ra", "re", "zu">>,
     <<"in", "saga">>, <<"kai", "zen">>}

Fever == <<"hatsu", "netsu">>

Dyspnea == <<"ko", "kyu", "kon", "nan">>

ShortBreath == <<"iki", "gi", "re">>

\* the entry of SYNONYMS for dyspnea, cut to one synonym
SYNONYMS == [k \in {Dyspnea} |-> {ShortBreath}]

\* the expansions of a term; the code iterates them in the order of a set
expand_terms(term) ==
    {nfkc(term)} \cup
    UNION {{k} \cup SYNONYMS[k] :
             k \in {x \in DOMAIN SYNONYMS : nfkc(term) = x \/ nfkc(term) \in SYNONYMS[x]}}

\* str.find from position i: the first index (from 0) or -1
RECURSIVE FindFrom(_, _, _)
FindFrom(text, sub, i) ==
    IF i + Len(sub) > Len(text) THEN -1
    ELSE IF SubSeq(text, i + 1, i + Len(sub)) = sub THEN i
         ELSE FindFrom(text, sub, i + 1)

find(text, sub) == FindFrom(text, sub, 0)

\* str.split(): the runs between spaces of a normalised text
RECURSIVE split(_)
split(text) ==
    IF text = <<>> THEN <<>>
    ELSE IF Head(text) = " " THEN split(Tail(text))
         ELSE LET n == IF find(text, <<" ">>) = -1 THEN Len(text) ELSE find(text, <<" ">>)
              IN  <<SubSeq(text, 1, n)>> \o split(SubSeq(text, n + 1, Len(text)))

\* one row of the longest-common-subsequence table
RECURSIVE LcsRow(_, _, _, _)
LcsRow(a, c, above, cur) ==
    IF Len(cur) = Len(above) THEN cur
    ELSE LET i == Len(cur)
         IN  LcsRow(a, c, above,
                    Append(cur, IF a[i] = c THEN above[i] + 1
                                ELSE Max2(above[i + 1], cur[i])))

RECURSIVE Lcs(_, _, _)
Lcs(a, b, row) ==
    IF b = <<>> THEN row[Len(row)]
    ELSE Lcs(a, Tail(b), LcsRow(a, Head(b), row, <<0>>))

\* rapidfuzz's ratio / 100: 2 * lcs / (len(a) + len(b))
sim(a, b) ==
    (2 * Lcs(a, b, [k \in 1..(Len(a) + 1) |-> 0]) * One) \div (Len(a) + Len(b))

is_ok_window_right(text, idx) ==
    LET win == SubSeq(text, idx + 1, Min2(Len(text), idx + WINDOW))
    IN  \E w \in OK_WORDS : find(win, w) # -1

\* text[max(0, idx-width) : min(len(text), idx+width)] holds an OK word
is_ok_window(text, idx) ==
    LET win == SubSeq(text, Max2(0, idx - WINDOW) + 1, Min2(Len(text), idx + WINDOW))
    IN  \E w \in OK_WORDS : find(win, w) # -1

\* the values found_idx can take for a term: the first expansion that
\* the text contains or, when it contains none, the first expansion with a
\* similar token, whatever the order of the expansions is
FoundIdx(text, term) ==
    LET exps == {norm(e) : e \in expand_terms(term)} \ {<<>>}
        toks == split(text)
        direct == {find(text, e) : e \in exps} \ {-1}
        like(e) == {k \in DOMAIN toks : sim(e, toks[k]) >= FUZZY_THRESHOLD}
        first(e) == toks[CHOOSE k \in like(e) : \A j \in like(e) : k <= j]
        fuzzy == {Max2(find(text, first(e)), 0) : e \in {x \in exps : like(x) # {}}}
    IN  IF direct # {} THEN direct ELSE IF fuzzy # {} THEN fuzzy ELSE {-1}

\* the removal of repeated terms at the end of fuzzy_hits_with_polarity
RECURSIVE Unique(_)
Unique(seq) ==
    IF seq = <<>> THEN <<>>
    ELSE LET init == Unique(SubSeq(seq, 1, Len(seq) - 1))
             x == seq[Len(seq)]
         IN  IF \E k \in DOMAIN init : init[k] = x THEN init ELSE Append(init, x)

\* fuzzy_hits_with_polarity on the text, found[term] being found_idx
hits_with_polarity(text, terms, found) ==
    LET IsOk(t) == found[t] # -1 /\ is_ok_window(text, found[t])
        IsPos(t) == found[t] # -1 /\ ~is_ok_window(text, found[t])
    IN  [pos |-> Unique(SelectSeq(terms, IsPos)), ok |-> Unique(SelectSeq(terms, IsOk))]

----------------------------------------------------------------------------
(* Rule / keyword matcher *)

RECURSIVE SelectIn(_, _)
SelectIn(terms, S) ==
    IF terms = <<>> THEN <<>>
    ELSE IF Head(terms) \in S THEN <<Head(terms)>> \o SelectIn(Tail(terms), S)
         ELSE SelectIn(Tail(terms), S)

\* (affirmed hits, normal/negated hits)
fuzzy_hits_with_polarity(a, terms) ==
    [pos |-> SelectIn(terms, a.affirmed), ok |-> SelectIn(terms, a.negated)]

NrsBonus(a, row) ==
    IF row.painLabel /\ a.NRS.known
    THEN IF a.NRS.v >= 7 THEN 15000 ELSE IF a.NRS.v >= 4 THEN 8000 ELSE 0
    ELSE 0

\* `v.get(k) and v[k] < limit`
VitalBelow(vital, limit) == vital.known /\ vital.v # 0 /\ vital.v < limit

HintBonus(a, row) ==
    (IF "resp" \in row.hint
     THEN Mul(W_HINT_RESP, One + (IF VitalBelow(a.SpO2, 90) THEN One ELSE 0)) ELSE 0)
    + (IF "circ" \in row.hint
       THEN Mul(W_HINT_RESP, One + (IF VitalBelow(a.MAP, 65) THEN One ELSE 0)) ELSE 0)

RuleBaseAllHits(hdc, hrf, hrk) ==
    W_RULE_DC * (Len(hdc.pos) + Len(hdc.ok)) + W_RULE_RF * (Len(hrf.pos) + Len(hrf.ok))
    + W_RULE_RK * (Len(hrk.pos) + Len(hrk.ok))

\* base = W_RULE_DC*len(pos_dc) + W_RULE_RF*len(pos_rf) + W_RULE_RK*len(pos_rk)
RuleBase(hdc, hrf, hrk) ==
    W_RULE_DC * Len(hdc.pos) + W_RULE_RF * Len(hrf.pos) + W_RULE_RK * Len(hrk.pos)

score_match_blocks(a, row) ==
    LET hdc == fuzzy_hits_with_polarity(a, row.dc)
        hrf == fuzzy_hits_with_polarity(a, row.rf)
        hrk == fuzzy_hits_with_polarity(a, row.rk)
        base == RuleBase(hdc, hrf, hrk)
        noted == hdc.ok # <<>> \/ hrf.ok # <<>> \/ hrk.ok # <<>>
    IN  [rule_raw |-> base + NrsBonus(a, row) + HintBonus(a, row),
         loose |-> [dc |-> hdc.pos, rf |-> hrf.pos, rk |-> hrk.pos],
         reasons |-> IF noted THEN <<[kind |-> "note", why |-> "normal/negated", shown |-> 0]>>
                     ELSE <<>>]

----------------------------------------------------------------------------
(* Hard filters: (pass, reason) *)

Verdict(ok, why) == [ok |-> ok, why |-> why]

\* the filters with the value of their strict flag as a parameter
row_care_target_ok_with(strict, row, demo) ==
    IF row.care_family /\ ~demo.has_family
    THEN Verdict(~strict, "care target is family, none in text")
    ELSE Verdict(TRUE, "")

row_age_ok_swapped(strict, row, demo) ==
    IF ~demo.age.known \/ (~row.age_min.known /\ ~row.age_max.known)
    THEN Verdict(TRUE, "")
    ELSE IF row.age_min.known /\ demo.age.v < row.age_min.v
         THEN Verdict(strict, "age below minimum")
         ELSE IF row.age_max.known /\ demo.age.v > row.age_max.v
              THEN Verdict(strict, "age above maximum")
              ELSE Verdict(TRUE, "")

row_age_ok_with(strict, row, demo) ==
    IF ~demo.age.known \/ (~row.age_min.known /\ ~row.age_max.known)
    THEN Verdict(TRUE, "")
    ELSE IF row.age_min.known /\ demo.age.v < row.age_min.v
         THEN Verdict(~strict, "age below minimum")
         ELSE IF row.age_max.known /\ demo.age.v > row.age_max.v
              THEN Verdict(~strict, "age above maximum")
              ELSE Verdict(TRUE, "")

row_sex_ok_with(strict, row, demo) ==
    IF "female" \in row.sexWords /\ demo.sex = "M"
    THEN Verdict(~strict, "male x female-specific")
    ELSE IF "male" \in row.sexWords /\ demo.sex = "F"
         THEN Verdict(~strict, "female x male-specific")
         ELSE Verdict(TRUE, "")

row_category_ok_with(strict, row, assess_cats) ==
    IF ~strict THEN Verdict(TRUE, "")
    ELSE IF assess_cats = {} \/ row.cats = {} THEN Verdict(TRUE, "")
         ELSE IF assess_cats \cap row.cats # {} THEN Verdict(TRUE, "category match")
              ELSE Verdict(FALSE, "category mismatch")

row_care_target_ok(row, demo) ==
    row_care_target_ok_with(STRICT_CARETARGET, row, demo)

row_age_ok(row, demo) == row_age_ok_with(STRICT_AGE_FILTER, row, demo)

row_sex_ok(row, demo) == row_sex_ok_with(STRICT_SEX_FILTER, row, demo)

row_category_ok(row, assess_cats) ==
    row_category_ok_with(STRICT_CATEGORY, row, assess_cats)

HardOkNoSex(a, row) ==
    /\ row_care_target_ok(row, a.demo).ok
    /\ row_age_ok(row, a.demo).ok
    /\ row_category_ok(row, a.cats).ok

HardOk(a, row) ==
    /\ row_care_target_ok(row, a.demo).ok
    /\ row_age_ok(row, a.demo).ok
    /\ row_sex_ok(row, a.demo).ok
    /\ row_category_ok(row, a.cats).ok

\* cat_reason[i] starts with "OK: category match"
CatMatched(a, row) ==
    LET v == row_category_ok(row, a.cats) IN v.ok /\ v.why = "category match"

----------------------------------------------------------------------------
(* Soft penalties: (amount, reason) *)

Penalty(p, why) == [p |-> p, why |-> why]

penalty_setting(row, assess_settings) ==
    IF row.settings = {} \/ row.settings \subseteq assess_settings
    THEN Penalty(0, "")
    ELSE Penalty(P_SETTING_MISMATCH, "setting evidence weak")

penalty_contradict(a, row) ==
    IF /\ row.aboutResp
       /\ ~a.respWords
       /\ \/ (a.SpO2.known /\ a.SpO2.v >= 95)
          \/ (a.RR.known /\ 12 <= a.RR.v /\ a.RR.v <= 20)
    THEN Penalty(P_CONTRADICT, "respiratory findings contradict")
    ELSE IF row.aboutPain /\ ~a.painWords
         THEN Penalty(P_CONTRADICT, "pain findings weak")
         ELSE Penalty(0, "")

----------------------------------------------------------------------------
(* collect(): pre-scores, eligible pool, loose cut-off, classifier targets *)

Idx(rs) == 1..Len(rs)

PreDefSim(rs, i) == rs[i].def_sim

PreRule(a, rs, i) == score_match_blocks(a, rs[i]).rule_raw

Eligible(a, rs) ==
    LET passed == {i \in Idx(rs) : HardOk(a, rs[i])}
    IN  IF passed = {} THEN Idx(rs) ELSE passed

KeptNoFallback(a, rs) ==
    {i \in Eligible(a, rs) :
        ~(PreDefSim(rs, i) < MIN_DEF_SIM_KEEP
          /\ PreRule(a, rs, i) < MIN_RULE_SCORE_KEEP)}

Kept(a, rs) ==
    LET k == {i \in Eligible(a, rs) :
                ~(PreDefSim(rs, i) < MIN_DEF_SIM_KEEP
                  /\ PreRule(a, rs, i) < MIN_RULE_SCORE_KEEP)}
    IN  IF k = {} THEN Eligible(a, rs) ELSE k

\* ten times quick_score(i)
quick_score(a, rs, i) ==
    6 * PreDefSim(rs, i) + 4 * Min2(One, PreRule(a, rs, i) \div 4)
    + (IF CatMatched(a, rs[i]) THEN W_CAT_MATCH ELSE 0)

\* position of i in sorted(S, key, reverse=True): the sort is stable
PosDesc(S, key, i) ==
    1 + Cardinality({j \in S : key[j] > key[i] \/ (key[j] = key[i] /\ j < i)})

\* set(order[:AI_TOPK]) if AI_TOPK>0 else set(), for a value topk of AI_TOPK
AiTargetsWith(topk, a, rs) ==
    LET q == [i \in Kept(a, rs) |-> quick_score(a, rs, i)]
    IN  IF topk > 0
        THEN {i \in Kept(a, rs) : PosDesc(Kept(a, rs), q, i) <= topk}
        ELSE {}

AiTargets(a, rs) == AiTargetsWith(AI_TOPK, a, rs)

\* the targets co_list[:cut] holds: the top 60% by coarse score
FineCut(n) == IF n = 0 THEN 0 ELSE Max2(1, (6 * n + 9) \div 10)

InCut(targets, scores, i) ==
    PosDesc(targets, scores, i) <= FineCut(Cardinality(targets))

FineEligibleNoCut(targets, scores) ==
    {i \in targets : scores[i] >= COARSE_MIN_PASS}

FineEligible(targets, scores) ==
    {i \in targets : InCut(targets, scores, i) /\ scores[i] >= COARSE_MIN_PASS}

EarlyAccept(targets, scores) == {i \in targets : scores[i] >= EARLY_ACCEPT}

----------------------------------------------------------------------------
(* collect(): score assembly *)

\* round(x, 3) and the "%.1f" format: to the nearest step, ties to even
RoundTo(x, step) ==
    LET q == x \div step
        r == x % step
    IN  IF 2 * r < step THEN q * step
        ELSE IF 2 * r > step THEN (q + 1) * step
             ELSE IF q % 2 = 0 THEN q * step ELSE (q + 1) * step

Round3(x) == RoundTo(x, 10)

Round1(x) == RoundTo(x, 1000)

Reason(kind, why, shown) == [kind |-> kind, why |-> why, shown |-> shown]

FilterReason(v) ==
    IF v.why = "" THEN <<>>
    ELSE <<Reason(IF v.ok THEN "OK" ELSE "NG", v.why, 0)>>

\* each penalty annotation is printed with the candidate's whole penalty
PenaltyShown(p, penalty) == Round1(penalty)

PenaltyReason(p, penalty) ==
    IF p.why = "" THEN <<>>
    ELSE <<Reason("penalty", p.why, PenaltyShown(p, penalty))>>

WeakHits(row, dc_hits, rk_hits) ==
    IF "problem" \in row.state /\ dc_hits < 1
    THEN Penalty(P_MIN_HITS_WEAK, "defining characteristics weak")
    ELSE IF "risk" \in row.state /\ rk_hits < 1
         THEN Penalty(P_MIN_HITS_WEAK, "risk factors weak")
         ELSE Penalty(0, "")

CategoryBonus(vcat) ==
    IF vcat.ok /\ vcat.why = "category match" THEN W_CAT_MATCH ELSE 0

Total(s_fine, s_coarse, ds, rule_raw, bonus, penalty) ==
    Mul(W_FINE_AI, s_fine) + Mul(W_COARSE_AI, s_coarse) + Mul(W_DEF_SIM, ds)
    + rule_raw + bonus - penalty

RelatedNoHardOk(hard_ok, s_fine, s_coarse, ds, rule_raw, total) ==
    \/ s_fine >= FINE_MIN_PASS
    \/ (s_coarse >= COARSE_MIN_PASS /\ (ds >= REL_MIN_DEF_SIM \/ rule_raw >= REL_MIN_RULE))
    \/ total >= REL_MIN_TOTAL

Related(hard_ok, s_fine, s_coarse, ds, rule_raw, total) ==
    /\ hard_ok
    /\ \/ s_fine >= FINE_MIN_PASS
       \/ (s_coarse >= COARSE_MIN_PASS /\ (ds >= REL_MIN_DEF_SIM \/ rule_raw >= REL_MIN_RULE))
       \/ total >= REL_MIN_TOTAL

build_cand(a, rs, i, s_coarse, s_fine, ai_ev) ==
    LET r == rs[i]
        ds == PreDefSim(rs, i)
        m == score_match_blocks(a, r)
        vct == row_care_target_ok(r, a.demo)
        vage == row_age_ok(r, a.demo)
        vsex == row_sex_ok(r, a.demo)
        vcat == row_category_ok(r, a.cats)
        hard_ok == vct.ok /\ vage.ok /\ vsex.ok /\ vcat.ok
        p1 == penalty_setting(r, a.settings)
        p3 == penalty_contradict(a, r)
        p2 == WeakHits(r, Len(m.loose.dc) + Len(ai_ev.dc),
                       Len(m.loose.rk) + Len(ai_ev.rk))
        penalty == p1.p + p2.p + p3.p
        total == Total(s_fine, s_coarse, ds, m.rule_raw, CategoryBonus(vcat), penalty)
    IN  [row |-> i,
         def_sim |-> ds,
         rule_raw |-> m.rule_raw,
         loose |-> m.loose,
         ai_coarse |-> s_coarse,
         ai_sim |-> s_fine,
         ai_ev |-> ai_ev,
         reasons |-> m.reasons \o FilterReason(vct) \o FilterReason(vage)
                     \o FilterReason(vsex) \o FilterReason(vcat)
                     \o PenaltyReason(p1, penalty) \o PenaltyReason(p2, penalty)
                     \o PenaltyReason(p3, penalty),
         related |-> Related(hard_ok, s_fine, s_coarse, ds, m.rule_raw, total),
         score |-> Round3(total),
         ai_rank |-> 0]

NoFine == [got |-> FALSE, s |-> 0, ev |-> NoEv]

\* out[i] after the fine stage, the early_accept loop and the default loop
OutCand(a, rs, scores, fres, i) ==
    IF fres[i].got THEN build_cand(a, rs, i, scores[i], fres[i].s, fres[i].ev)
    ELSE IF scores[i] >= EARLY_ACCEPT /\ i \in EarlyAccept(AiTargets(a, rs), scores)
         THEN build_cand(a, rs, i, scores[i], scores[i], NoEv)
         ELSE build_cand(a, rs, i, scores[i], 0, NoEv)

SortKey(c) ==
    <<IF c.related THEN 1 ELSE 0, Round3(c.score), Round3(c.ai_sim),
      Round3(c.ai_coarse), c.def_sim, Round3(c.rule_raw)>>

RECURSIVE LexGreater(_, _)
LexGreater(x, y) ==
    IF x = <<>> THEN FALSE
    ELSE IF Head(x) # Head(y) THEN Head(x) > Head(y)
         ELSE LexGreater(Tail(x), Tail(y))

\* list.sort(reverse=True) is stable: of two candidates with the same key
\* the one that was first stays first
RECURSIVE Insert(_, _)
Insert(c, sorted) ==
    IF sorted = <<>> THEN <<c>>
    ELSE IF LexGreater(SortKey(c), SortKey(Head(sorted)))
         THEN <<c>> \o sorted
         ELSE <<Head(sorted)>> \o Insert(c, Tail(sorted))

RECURSIVE SortDesc(_)
SortDesc(xs) ==
    IF xs = <<>> THEN <<>>
    ELSE Insert(xs[Len(xs)], SortDesc(SubSeq(xs, 1, Len(xs) - 1)))

SortedCandsNoSort(out) == [k \in DOMAIN out |-> [out[k] EXCEPT !.ai_rank = k]]

\* cands after cands.sort(key=..., reverse=True) and the ai_rank loop
SortedCands(out) ==
    LET s == SortDesc(out)
    IN  [k \in DOMAIN s |-> [s[k] EXCEPT !.ai_rank = k]]

RECURSIVE SelectVisible(_)
SelectVisible(cands) ==
    IF cands = <<>> THEN <<>>
    ELSE IF Head(cands).related /\ Head(cands).score > 0
         THEN <<Head(cands)>> \o SelectVisible(Tail(cands))
         ELSE SelectVisible(Tail(cands))

Prefix(xs, k) == SubSeq(xs, 1, Min2(k, Len(xs)))

VisibleNoFallback(cands, only_related) ==
    IF only_related THEN SelectVisible(cands) ELSE cands

Visible(cands, only_related) ==
    LET vis == SelectVisible(cands)
    IN  IF only_related
        THEN IF vis # <<>> THEN vis
             ELSE Prefix(cands, Max2(3, (Len(cands) * OUT_TOP_FRAC) \div One))
        ELSE cands

\* out, filled row by row
RECURSIVE OutList(_, _, _, _, _)
OutList(a, rs, scores, fres, n) ==
    IF n = 0 THEN <<>>
    ELSE Append(OutList(a, rs, scores, fres, n - 1), OutCand(a, rs, scores, fres, n))

AllCands(a, rs, scores, fres) ==
    SortedCands(OutList(a, rs, scores, fres, Len(rs)))

----------------------------------------------------------------------------
(* The catalogue source and its two caches.                                *)
(* A file is written by its stat fields and its content; a cache file is   *)
(* absent, unreadable ("garbled": no JSON / no pickle, or without the      *)
(* expected fields), or holds what the program wrote.                      *)

RECURSIVE Digits(_)
\* str(n)
Digits(n) == IF n < 10 THEN <<n>> ELSE Digits(n \div 10) \o <<n % 10>>

\* sha1 of str(st_mtime_ns) followed by str(st_size); two digests are equal
\* when the digested characters are
file_sig(p) == Digits(p.mtime_ns) \o Digits(p.size)

\* pd.read_excel, the column names mapped by COLMAP, str(v).strip() on
\* each cell
ParseSheet(p) ==
    [k \in DOMAIN p.sheet |->
        [p.sheet[k] EXCEPT !.label = strip(@), !.definition = strip(@)]]

Absent == [kind |-> "absent"]

Garbled == [kind |-> "garbled"]

RowsCacheValid(rc, sig) == rc.kind = "json" /\ rc.sig = sig

\* outcome of writing a file: written, left empty by a failed write, or
\* not opened at all
WriteOutcomes == {"written", "truncated", "untouched"}

AfterWrite(old, new, outcome) ==
    CASE outcome = "written" -> new
      [] outcome = "truncated" -> Garbled
      [] OTHER -> old

load_nanda_rows(p, rc, outcome) ==
    IF ~p.exists
    THEN [raised |-> TRUE, rows |-> <<>>, rows_from |-> "none", rows_cache |-> rc]
    ELSE IF RowsCacheValid(rc, file_sig(p))
    THEN [raised |-> FALSE, rows |-> rc.rows, rows_from |-> "cache", rows_cache |-> rc]
    ELSE IF outcome = "written"
    THEN [raised |-> FALSE, rows |-> ParseSheet(p), rows_from |-> "parse",
          rows_cache |-> [kind |-> "json", sig |-> file_sig(p), rows |-> ParseSheet(p)]]
    ELSE [raised |-> TRUE, rows |-> <<>>, rows_from |-> "none",
          rows_cache |-> AfterWrite(rc, Garbled, outcome)]

MAX_TOKENS == 120

Letter(c) == c \in {"a", "b", "i", "A"}

RECURSIVE Runs(_, _)
\* the maximal runs of letters of t
Runs(t, cur) ==
    IF t = <<>> THEN (IF cur = <<>> THEN <<>> ELSE <<cur>>)
    ELSE IF Letter(Head(t)) THEN Runs(Tail(t), Append(cur, Head(t)))
         ELSE (IF cur = <<>> THEN <<>> ELSE <<cur>>) \o Runs(Tail(t), <<>>)

TwoOrMore(w) == Len(w) >= 2

ThreeOrMore(w) == Len(w) >= 3

\* the Latin words of two letters or more, then the pairs of consecutive
\* words of three letters or more; no character of the alphabet is in
\* JA_SEQ or is a hyphen, no token is a stop word
tokenize(text) ==
    LET runs == Runs(lower(text), <<>>)
        words == SelectSeq(runs, ThreeOrMore)
        pairs == IF Len(words) < 2 THEN <<>>
                 ELSE [i \in 1..(Len(words) - 1) |-> words[i] \o <<"_">> \o words[i + 1]]
    IN  Prefix(SelectSeq(runs, TwoOrMore) \o pairs, MAX_TOKENS)

tf(tokens) ==
    [w \in {tokens[k] : k \in DOMAIN tokens} |->
        Cardinality({k \in DOMAIN tokens : tokens[k] = w})]

RECURSIVE Gcd(_, _)
Gcd(a, b) == IF b = 0 THEN a ELSE Gcd(b, a % b)

\* the fraction n/d in lowest terms
Ratio(n, d) == <<n \div Gcd(n, d), d \div Gcd(n, d)>>

\* idf[w] = log((N+1)/(df+1)) + 1, written by the fraction under the log
idf(lists) ==
    LET W == UNION {{lists[i][k] : k \in DOMAIN lists[i]} : i \in DOMAIN lists}
        df(w) == Cardinality({i \in DOMAIN lists : \E k \in DOMAIN lists[i] : lists[i][k] = w})
    IN  [w \in W |-> Ratio(Len(lists) + 1, df(w) + 1)]

\* weight tf * idf, written by its two factors
tfidf_vec(tokens, idfmap) ==
    [w \in DOMAIN tf(tokens) \cap DOMAIN idfmap |-> <<tf(tokens)[w], idfmap[w]>>]

DefTokens(rs) == [i \in DOMAIN rs |-> tokenize(nfkc(rs[i].definition))]

VecCacheValidAnySig(vc, sig) == vc.kind = "pickle"

VecCacheValid(vc, sig) == vc.kind = "pickle" /\ vc.sig = sig

\* rc is ROWS_CACHE as load_nanda_rows left it
build_definition_space(rs, rc, vc, outcome) ==
    LET sig == IF rc.kind = "json" THEN rc.sig ELSE <<>>
        idfmap == idf(DefTokens(rs))
        def_vecs == [i \in DOMAIN rs |-> tfidf_vec(DefTokens(rs)[i], idfmap)]
    IN  IF VecCacheValid(vc, sig)
        THEN [idfmap |-> vc.idfmap, def_vecs |-> vc.def_vecs, vecs_from |-> "cache",
              vec_cache |-> vc]
        ELSE [idfmap |-> idfmap, def_vecs |-> def_vecs, vecs_from |-> "build",
              vec_cache |->
                AfterWrite(vc, [kind |-> "pickle", sig |-> sig, idfmap |-> idfmap,
                                def_vecs |-> def_vecs], outcome)]

\* catalogue sheets: cells as typed, with spaces around
CatRowA == [RowResp EXCEPT !.definition = <<" ", "a", "b">>]

CatRowB == [RowResp EXCEPT !.label = <<"b", " ">>,
                           !.definition = <<"a", "b", "IS", "b", "a", "b">>]

CatRowC == [RowResp EXCEPT !.label = <<"i">>,
                           !.definition = <<"A", "b", "a", " ", "b", "a", "b">>]

NoSource == [exists |-> FALSE, mtime_ns |-> 0, size |-> 0, sheet |-> <<>>]

\* versions of the catalogue file: a first one, a longer one, one of the
\* same size saved later with other rows, and the first one saved again
Sources ==
    {NoSource,
     [exists |-> TRUE, mtime_ns |-> 11, size |-> 5, sheet |-> <<CatRowA>>],
     [exists |-> TRUE, mtime_ns |-> 12, size |-> 7, sheet |-> <<CatRowA, CatRowB>>],
     [exists |-> TRUE, mtime_ns |-> 13, size |-> 7, sheet |-> <<CatRowC, CatRowA>>],
     [exists |-> TRUE, mtime_ns |-> 14, size |-> 5, sheet |-> <<CatRowA>>]}

NotLoaded == [kind |-> "none"]

CatIdle ==
    /\ nanda_xlsx = NoSource
    /\ rows_cache = Absent
    /\ vec_cache = Absent
    /\ loaded = NotLoaded

----------------------------------------------------------------------------
(* One process running main().                                             *)
(*   pc: main -> coarse -> fine -> exit0, a stage being skipped when it    *)
(*       has no target, and raised -> exit1 when an exception leaves main()*)
(* An action is the code one thread runs between two points where the      *)
(* other threads can be seen to move.                                      *)

\* a cache file an earlier process of this program has written
SeedDisk ==
    save_cache(
      [coarse |-> Put(<<>>, coarse_key(AssessHypoxic.text, RowResp.label,
                                       RowResp.definition), 9000),
       fine |-> Put(<<>>, fine_key(AssessHypoxic.text, RowResp.label,
                                   RowResp.definition, RowResp.dc, RowResp.rf,
                                   RowResp.rk),
                    FineEntry(15000, [dc |-> <<"dyspnea">>, rf |-> <<>>, rk |-> <<>>]))])

InitDisks == {NoFile, SeedDisk}

\* DIAG_COARSE_CONCURRENCY and DIAG_FINE_CONCURRENCY: one worker each, or
\* the defaults
Workers == {<<1, 1>>, <<COARSE_CONCURRENCY, FINE_CONCURRENCY>>}

\* OUT_REQUIRE_RELATED and the two pool sizes: the defaults, and one
\* setting changed
Configs ==
    {c \in {[only_related |-> b, coarse_concurrency |-> w[1], fine_concurrency |-> w[2]] :
              b \in BOOLEAN, w \in Workers} :
        c.only_related \/ c.coarse_concurrency = COARSE_CONCURRENCY}

NoConfig ==
    [only_related |-> TRUE, coarse_concurrency |-> COARSE_CONCURRENCY,
     fine_concurrency |-> FINE_CONCURRENCY]

\* ollama_available(): what a probe of the service may answer
Probe == IF service = "offline" THEN {FALSE} ELSE BOOLEAN

NoXlsx == [exists |-> FALSE, rows |-> <<>>]

Files ==
    [assess : Assessments \cup {NoAssess},
     xlsx : {NoXlsx} \cup [exists : {TRUE}, rows : Catalogues]]

NoFiles == [assess |-> NoAssess, xlsx |-> NoXlsx]

NoText == [kind |-> "absent", shown |-> <<>>, msg |-> ""]

NoInput == [fn |-> "none"]

NoOutput == [done |-> FALSE]

UnitIdle == inp = NoInput /\ outp = NoOutput

NoJson == [exists |-> FALSE, candidates |-> <<>>]

Ranks(cands) == [k \in DOMAIN cands |-> cands[k].ai_rank]

\* the candidates main() prints: for c in cands[:SHOW_N]
Shown(cands) == Prefix(cands, SHOW_N)

JsonShownOnly(cands) == Prefix(cands, SHOW_N)

\* the "candidates" field of the record main() writes
JsonCandidates(cands) == cands

CoarseGateNoProbe(targets, up) == targets # {}

\* if ai_targets and ollama_available():
CoarseGate(targets, up) == targets # {} /\ up

PipeIdle ==
    /\ assess = NoAssess
    /\ rows = <<>>
    /\ task = <<>>
    /\ expired = FALSE
    /\ ai_coarse_s = <<>>
    /\ fine_pool = {}
    /\ fine_res = <<>>
    /\ ret = <<>>
    /\ result_txt = NoText
    /\ exc = ""
    /\ result_json = NoJson

Init ==
    /\ disk \in InitDisks
    /\ cache = load_cache(disk)
    /\ prev = NoCall /\ last = NoCall /\ ncalls = 0
    /\ pc = "main"
    /\ cfg \in Configs
    /\ files \in Files
    /\ service \in {"offline", "online"}
    /\ PipeIdle
    /\ UnitIdle
    /\ CatIdle

CoarseKeyOf(i) == coarse_key(assess.text, rows[i].label, rows[i].definition)

FineKeyOf(i) ==
    fine_key(assess.text, rows[i].label, rows[i].definition,
             rows[i].dc, rows[i].rf, rows[i].rk)

Running == Cardinality({i \in DOMAIN task : task[i] = "running"})

AllDoneNoWait == \A i \in DOMAIN task : task[i] # "queued"

\* the exit of the with block: shutdown(wait=True) returns when every
\* submitted task has run
AllDone == \A i \in DOMAIN task : task[i] \in {"none", "done"}

\* collect() from the early_accept loop to its return, and main() after it:
\* the text report and the candidate record.  collect()'s locals end here.
Finish(a, rs, scores, fres) ==
    /\ ret' = Visible(AllCands(a, rs, scores, fres), cfg.only_related)
    /\ result_txt' = [kind |-> "report", shown |-> Ranks(Shown(ret')), msg |-> ""]
    /\ result_json' = [exists |-> TRUE, candidates |-> JsonCandidates(ret')]
    /\ pc' = "exit0"
    /\ task' = <<>>
    /\ ai_coarse_s' = <<>>
    /\ fine_pool' = {}
    /\ fine_res' = <<>>

\* collect() from co_list to the submission of the fine tasks, or to the end
\* when fine_pool is empty.  ollama_available() is asked once per target
\* that passed, and each probe may answer differently.
AfterCoarse(a, rs, scores) ==
    \E pool \in SUBSET FineEligible(AiTargets(a, rs), scores) :
        /\ (service = "offline" => pool = {})
        /\ IF pool = {}
           THEN Finish(a, rs, scores, [i \in Idx(rs) |-> NoFine])
           ELSE /\ pc' = "fine"
                /\ fine_pool' = pool
                /\ task' = [i \in Idx(rs) |-> IF i \in pool THEN "queued" ELSE "none"]
                /\ ai_coarse_s' = scores
                /\ fine_res' = [i \in Idx(rs) |-> NoFine]
                /\ UNCHANGED <<ret, result_txt, result_json>>

InputsMissingAssessOnly(f) == f.assess.text = <<>>

\* read_assess_and_so() or load_nanda_rows() raises FileNotFoundError
InputsMissing(f) == f.assess.text = <<>> \/ ~f.xlsx.exists

\* the message names the resource: main() reads the assessment first
MissingInput(f) ==
    IF f.assess.text = <<>> THEN "FileNotFoundError: assessment_final.txt"
    ELSE "FileNotFoundError: nanda_db.xlsx"

\* an exception leaves main(): the locals of main() and collect() are gone
Unwind(e) ==
    /\ pc' = "raised"
    /\ exc' = e
    /\ assess' = NoAssess
    /\ rows' = <<>>
    /\ task' = <<>>
    /\ ai_coarse_s' = <<>>
    /\ fine_pool' = {}
    /\ fine_res' = <<>>
    /\ UNCHANGED <<ret, result_txt, result_json>>

\* main(): read_assess_and_so(), load_nanda_rows(), and collect() up to the
\* submission of the coarse tasks (or further, when the stage is skipped)
Start ==
    /\ pc = "main"
    /\ IF InputsMissing(files)
       THEN Unwind(MissingInput(files))
       ELSE /\ exc' = exc
            /\ assess' = files.assess
            /\ rows' = files.xlsx.rows
            /\ \E up \in Probe :
                  IF CoarseGate(AiTargets(files.assess, files.xlsx.rows), up)
                  THEN /\ pc' = "coarse"
                       /\ task' = [i \in Idx(files.xlsx.rows) |->
                                     IF i \in AiTargets(files.assess, files.xlsx.rows)
                                     THEN "queued" ELSE "none"]
                       /\ ai_coarse_s' = [i \in Idx(files.xlsx.rows) |-> 0]
                       /\ fine_res' = [i \in Idx(files.xlsx.rows) |-> NoFine]
                       /\ UNCHANGED <<fine_pool, ret, result_txt, result_json>>
                  ELSE AfterCoarse(files.assess, files.xlsx.rows,
                                   [i \in Idx(files.xlsx.rows) |-> 0])
    /\ UNCHANGED <<cache, disk, gwVars, unitVars, catVars, cfg, files, expired, service>>

\* a worker takes task_coarse(i): ai_coarse looks the key up
CoarseBegin(i) ==
    /\ pc = "coarse"
    /\ task[i] = "queued"
    /\ Running < Max2(1, cfg.coarse_concurrency)
    /\ \E key \in {CoarseKeyOf(i)} :
          IF HasKey(cache.coarse, key)
          THEN /\ task' = [task EXCEPT ![i] = "done"]
               /\ ai_coarse_s' = IF expired THEN ai_coarse_s
                                 ELSE [ai_coarse_s EXCEPT ![i] = CoarseHit(cache, key).ret]
          ELSE /\ task' = [task EXCEPT ![i] = "running"]
               /\ UNCHANGED ai_coarse_s
    /\ UNCHANGED <<cache, disk, gwVars, unitVars, catVars, exc, pc, cfg, files, assess, rows, expired,
                   fine_pool, fine_res, service, ret, result_txt, result_json>>

\* after a miss: probe, classification call, cache write, return; the main
\* thread stores the result unless the task raised
CoarseFinish(i) ==
    /\ pc = "coarse"
    /\ task[i] = "running"
    /\ \E key \in {CoarseKeyOf(i)} :
       \E o \in {CoarseMiss(cache, key, avail, replies) :
                    avail \in Probe, replies \in Attempts(CoarseReplies)} :
          /\ cache' = o.cache
          /\ ai_coarse_s' = IF o.raised \/ expired THEN ai_coarse_s
                            ELSE [ai_coarse_s EXCEPT ![i] = o.ret]
    /\ task' = [task EXCEPT ![i] = "done"]
    /\ UNCHANGED <<disk, gwVars, unitVars, catVars, exc, pc, cfg, files, assess, rows, expired, fine_pool,
                   fine_res, service, ret, result_txt, result_json>>

\* as_completed(futures, timeout=...) raises TimeoutError while futures are
\* pending; collect() reads its result lists no more
CoarseExpire ==
    /\ pc = "coarse"
    /\ COARSE_BUDGET_SEC > 0
    /\ ~expired
    /\ ~AllDone
    /\ expired' = TRUE
    /\ ai_coarse_s' = [i \in Idx(rows) |-> 0]
    /\ UNCHANGED <<cache, disk, gwVars, unitVars, catVars, exc, pc, cfg, files, assess, rows, task,
                   fine_pool, fine_res, service, ret, result_txt, result_json>>

\* the with block is left once every submitted task has run
CoarseJoin ==
    /\ pc = "coarse"
    /\ AllDone
    /\ IF expired
       THEN Unwind("TimeoutError")
       ELSE /\ UNCHANGED <<assess, rows, exc>>
            /\ AfterCoarse(assess, rows, ai_coarse_s)
    /\ UNCHANGED <<cache, disk, gwVars, unitVars, catVars, cfg, files, expired, service>>

FineBegin(i) ==
    /\ pc = "fine"
    /\ task[i] = "queued"
    /\ Running < Max2(1, cfg.fine_concurrency)
    /\ \E key \in {FineKeyOf(i)} :
          IF HasKey(cache.fine, key)
          THEN /\ task' = [task EXCEPT ![i] = "done"]
               /\ fine_res' = IF expired THEN fine_res
                              ELSE [fine_res EXCEPT ![i] =
                                      [got |-> TRUE, s |-> FineHit(cache, key).ret,
                                       ev |-> FineHit(cache, key).ev]]
          ELSE /\ task' = [task EXCEPT ![i] = "running"]
               /\ UNCHANGED fine_res
    /\ UNCHANGED <<cache, disk, gwVars, unitVars, catVars, exc, pc, cfg, files, assess, rows, expired,
                   ai_coarse_s, fine_pool, service, ret, result_txt, result_json>>

FineFinish(i) ==
    /\ pc = "fine"
    /\ task[i] = "running"
    /\ \E key \in {FineKeyOf(i)} :
       \E o \in {FineMiss(cache, key, avail, replies) :
                    avail \in Probe, replies \in Attempts(FineReplies)} :
          /\ cache' = o.cache
          /\ fine_res' = IF o.raised \/ expired THEN fine_res
                         ELSE [fine_res EXCEPT ![i] =
                                 [got |-> TRUE, s |-> o.ret, ev |-> o.ev]]
    /\ task' = [task EXCEPT ![i] = "done"]
    /\ UNCHANGED <<disk, gwVars, unitVars, catVars, exc, pc, cfg, files, assess, rows, expired,
                   ai_coarse_s, fine_pool, service, ret, result_txt, result_json>>

FineExpire ==
    /\ pc = "fine"
    /\ FINE_BUDGET_SEC > 0
    /\ ~expired
    /\ ~AllDone
    /\ expired' = TRUE
    /\ ai_coarse_s' = [i \in Idx(rows) |-> 0]
    /\ fine_res' = [i \in Idx(rows) |-> NoFine]
    /\ UNCHANGED <<cache, disk, gwVars, unitVars, catVars, exc, pc, cfg, files, assess, rows, task,
                   fine_pool, service, ret, result_txt, result_json>>

\* the with block is left; early_accept loop, default loop, sort, ai_rank,
\* visibility filter, return, and main()'s output
FineJoin ==
    /\ pc = "fine"
    /\ AllDone
    /\ IF expired
       THEN Unwind("TimeoutError")
       ELSE /\ UNCHANGED <<assess, rows, exc>>
            /\ Finish(assess, rows, ai_coarse_s, fine_res)
    /\ UNCHANGED <<cache, disk, gwVars, unitVars, catVars, cfg, files, expired, service>>

\* the except branch under __main__
Fatal ==
    /\ pc = "raised"
    /\ result_txt' = [kind |-> "fatal", shown |-> <<>>, msg |-> exc]
    /\ disk' = save_cache(cache)
    /\ pc' = "exit1"
    /\ UNCHANGED <<cache, gwVars, unitVars, catVars, exc, cfg, files, assess, rows, task, expired,
                   ai_coarse_s, fine_pool, fine_res, service, ret, result_json>>

Next ==
    \/ Start
    \/ \E i \in DOMAIN task : CoarseBegin(i)
    \/ \E i \in DOMAIN task : CoarseFinish(i)
    \/ CoarseExpire
    \/ CoarseJoin
    \/ \E i \in DOMAIN task : FineBegin(i)
    \/ \E i \in DOMAIN task : FineFinish(i)
    \/ FineExpire
    \/ FineJoin
    \/ Fatal

Spec == Init /\ [][Next]_vars

----------------------------------------------------------------------------
(* Gateway harness: specification *)

GwInit ==
    /\ disk \in {NoFile}
    /\ cache = load_cache(disk)
    /\ prev = NoCall
    /\ last = NoCall
    /\ ncalls = 0
    /\ pc = "idle"
    /\ cfg = NoConfig
    /\ files = NoFiles
    /\ service = "online"
    /\ PipeIdle
    /\ UnitIdle
    /\ CatIdle

CallCoarse ==
    /\ ncalls < MaxCalls
    /\ \E req \in Requests, avail \in Probe, replies \in Attempts(CoarseReplies) :
          LET o == ai_coarse(cache, coarse_key(req.assess, req.label, req.definition),
                             avail, replies)
          IN  /\ cache' = o.cache
              /\ prev' = last
              /\ last' = CallRecord("coarse", req, o,
                                    Degraded("coarse", avail, replies), cache)
    /\ ncalls' = ncalls + 1
    /\ UNCHANGED <<disk, pipeVars, unitVars, catVars>>

CallFine ==
    /\ ncalls < MaxCalls
    /\ \E req \in Requests, avail \in Probe, replies \in Attempts(FineReplies) :
          LET o == ai_fine(cache,
                           fine_key(req.assess, req.label, req.definition,
                                    req.dc, req.rf, req.rk),
                           avail, replies)
          IN  /\ cache' = o.cache
              /\ prev' = last
              /\ last' = CallRecord("fine", req, o,
                                    Degraded("fine", avail, replies), cache)
    /\ ncalls' = ncalls + 1
    /\ UNCHANGED <<disk, pipeVars, unitVars, catVars>>

GwNext == CallCoarse \/ CallFine

SpecGateway == GwInit /\ [][GwNext]_vars

SameRequestTwice ==
    /\ prev.fn # "none"
    /\ prev.fn = last.fn
    /\ prev.req = last.req

----------------------------------------------------------------------------
(* Function harness: one application of one function of the module to      *)
(* arguments drawn from small sets                                          *)

MaxLen == 2

Strings(n) == UNION {[1..k -> Alphabet] : k \in 0..n}

NormInputs == {[fn |-> "norm", x |-> x] : x \in Strings(MaxLen)}

\* rows, demographics and category sets for the hard filters
FilterRows ==
    {[RowResp EXCEPT !.sexWords = sw, !.age_min = lo, !.age_max = hi,
                     !.care_family = cf, !.cats = cs] :
        sw \in SUBSET {"female", "male"}, lo \in {NoAge, Age(65)},
        hi \in {NoAge, Age(17)}, cf \in BOOLEAN, cs \in {{}, {"resp"}, {"pain"}}}

Demos ==
    [sex : {"M", "F", "none"}, age : {NoAge, Age(10), Age(70)}, has_family : BOOLEAN]

FilterInputs ==
    {[fn |-> "filters", row |-> r, demo |-> d, cats |-> cs] :
        r \in FilterRows, d \in Demos, cs \in {{}, {"resp"}}}

\* catalogues and assessments for the pools of collect()
RowMale == [RowResp EXCEPT !.sexWords = {"male"}]

RowFemaleLow == [RowFemale EXCEPT !.painLabel = FALSE, !.def_sim = 100]

PoolRows == {RowResp, RowMale, RowFemale, RowFemaleLow}

PoolInputs ==
    {[fn |-> "pools", a |-> [AssessPlain EXCEPT !.demo.sex = sx], rows |-> rs] :
        sx \in {"M", "F", "none"},
        rs \in UNION {[1..n -> PoolRows] : n \in 0..MaxRows}}

\* texts for the matcher: three pieces with filler characters between
Nashi == <<"na", "shi">>

DyspneaNo == <<" ", "ko", "kyu", "no", "kon", "nan", " ">>

Pieces == {<<>>, Fever, Dyspnea, ShortBreath, DyspneaNo, Nashi}

Fill(n) == [k \in 1..n |-> "x"]

MaxGap == 11

Texts ==
    {p1 \o Fill(g1) \o p2 \o Fill(g2) \o p3 :
        p1 \in Pieces, p2 \in Pieces, p3 \in Pieces, g1 \in 0..MaxGap, g2 \in 0..1}

\* the term lists of a row: split_terms() has removed repeated terms
TermLists ==
    {[dc |-> <<Fever, Dyspnea>>, rf |-> <<>>, rk |-> <<>>],
     [dc |-> <<Fever>>, rf |-> <<Dyspnea>>, rk |-> <<ShortBreath>>]}

PolarityInputs ==
    {[fn |-> "polarity", text |-> t, terms |-> r] : t \in Texts, r \in TermLists}

\* the state of collect() before its sort: rows, coarse scores of the
\* classifier targets and fine results of rows the fine stage took
RowRespB == [RowResp EXCEPT !.definition = <<"a", "b">>]

RankRows == {RowResp, RowRespB, RowFemale}

RankScores == {0, 3000, 9001, 9002}

FineResults == {NoFine, [got |-> TRUE, s |-> 6000, ev |-> NoEv]}

MaxCatalogue == 20

\* S is written as a map on all of I: v on S, d elsewhere
Extend(I, S, v, d) == [i \in I |-> IF i \in S THEN v[i] ELSE d]

\* fine results only for rows of the fine pool the scores sc allow
RankFine(a, rs, T, sc) ==
    {Extend(Idx(rs), FineEligible(T, sc), f, NoFine) :
        f \in [FineEligible(T, sc) -> FineResults]}

\* coarse scores only for the classifier targets T of the catalogue
RankStates(a, rs) ==
    UNION {UNION {{[fn |-> "rank", a |-> a, rows |-> rs, scores |-> sc, fres |-> fr] :
                      fr \in RankFine(a, rs, T, sc)} :
                  sc \in {Extend(Idx(rs), T, x, 0) : x \in [T -> RankScores]}} :
           T \in {AiTargets(a, rs)}}

RankInputs ==
    UNION {RankStates(a, rs) :
             a \in Assessments,
             rs \in UNION {[1..n -> RankRows] : n \in 0..MaxRows}}
    \cup {[fn |-> "rank", a |-> a, rows |-> [k \in 1..n |-> RowFemale],
           scores |-> [k \in 1..n |-> 0], fres |-> [k \in 1..n |-> NoFine]] :
            a \in Assessments, n \in {MaxRows + 2, MaxCatalogue}}

\* catalogues, values of DIAG_AI_TOPK and coarse results for the selection
\* of the classifier targets and of the fine pool
RowRespC == [RowResp EXCEPT !.def_sim = 2000]

SelectRows == {RowResp, RowRespC, RowFemale}

MaxSelect == 3

TopKs == {-1, 0, 1, AI_TOPK + 1}

SelectScores == {0, 3000, 9000}

SelectStates(topk, a, rs) ==
    UNION {{[fn |-> "select", topk |-> topk, a |-> a, rows |-> rs,
             scores |-> Extend(Idx(rs), T, x, 0)] : x \in [T -> SelectScores]} :
           T \in {AiTargetsWith(topk, a, rs)}}

SelectInputs ==
    UNION {SelectStates(topk, a, rs) :
             topk \in TopKs, a \in Assessments,
             rs \in UNION {[1..n -> SelectRows] : n \in 0..MaxSelect}}

UnitInputs ==
    NormInputs \cup FilterInputs \cup PoolInputs \cup PolarityInputs \cup RankInputs
    \cup SelectInputs

UnitInit ==
    /\ disk = NoFile
    /\ cache = load_cache(disk)
    /\ prev = NoCall
    /\ last = NoCall
    /\ ncalls = 0
    /\ pc = "idle"
    /\ cfg = NoConfig
    /\ files = NoFiles
    /\ service = "online"
    /\ PipeIdle
    /\ inp \in UnitInputs
    /\ outp = NoOutput
    /\ CatIdle

\* t = norm(x), then norm(t)
ApplyNorm ==
    /\ inp.fn = "norm"
    /\ ~outp.done
    /\ outp' = [done |-> TRUE, once |-> norm(inp.x), twice |-> norm(norm(inp.x))]
    /\ UNCHANGED <<cache, disk, gwVars, pipeVars, catVars, inp>>

\* the four hard filters, once with every strict flag on and once with
\* every strict flag off
ApplyFilters ==
    /\ inp.fn = "filters"
    /\ ~outp.done
    /\ outp' =
         [done |-> TRUE,
          strict |-> <<row_care_target_ok_with(TRUE, inp.row, inp.demo),
                       row_age_ok_with(TRUE, inp.row, inp.demo),
                       row_sex_ok_with(TRUE, inp.row, inp.demo),
                       row_category_ok_with(TRUE, inp.row, inp.cats)>>,
          permissive |-> <<row_care_target_ok_with(FALSE, inp.row, inp.demo),
                           row_age_ok_with(FALSE, inp.row, inp.demo),
                           row_sex_ok_with(FALSE, inp.row, inp.demo),
                           row_category_ok_with(FALSE, inp.row, inp.cats)>>]
    /\ UNCHANGED <<cache, disk, gwVars, pipeVars, catVars, inp>>

\* collect() from the hard filter to ai_targets
ApplyPools ==
    /\ inp.fn = "pools"
    /\ ~outp.done
    /\ outp' =
         [done |-> TRUE,
          sex_ok |-> [i \in Idx(inp.rows) |-> row_sex_ok(inp.rows[i], inp.a.demo).ok],
          hard_ok |-> [i \in Idx(inp.rows) |-> HardOk(inp.a, inp.rows[i])],
          eligible |-> Eligible(inp.a, inp.rows),
          kept |-> Kept(inp.a, inp.rows),
          ai_targets |-> AiTargets(inp.a, inp.rows)]
    /\ UNCHANGED <<cache, disk, gwVars, pipeVars, catVars, inp>>

TermsOf(r) == {r.dc[k] : k \in DOMAIN r.dc} \cup {r.rf[k] : k \in DOMAIN r.rf}
                  \cup {r.rk[k] : k \in DOMAIN r.rk}

\* one found_idx for each term
Picks(text, T) ==
    {f \in [T -> UNION {FoundIdx(text, t) : t \in T}] :
        \A t \in T : f[t] \in FoundIdx(text, t)}

\* score_match_blocks() up to `base`: the text is normalised, the three
\* term lists are matched, the affirmed hits are weighted
ApplyPolarity ==
    /\ inp.fn = "polarity"
    /\ ~outp.done
    /\ LET t == norm(inp.text)
       IN  \E found \in Picks(t, TermsOf(inp.terms)) :
              outp' =
                LET dc == hits_with_polarity(t, inp.terms.dc, found)
                    rf == hits_with_polarity(t, inp.terms.rf, found)
                    rk == hits_with_polarity(t, inp.terms.rk, found)
                IN  [done |-> TRUE, t |-> t, found |-> found,
                     dc |-> dc, rf |-> rf, rk |-> rk, base |-> RuleBase(dc, rf, rk)]
    /\ UNCHANGED <<cache, disk, gwVars, pipeVars, catVars, inp>>

\* collect() from the filled out list to its return value, for both
\* values of OUT_REQUIRE_RELATED
ApplyRank ==
    /\ inp.fn = "rank"
    /\ ~outp.done
    /\ outp' =
         LET cands == AllCands(inp.a, inp.rows, inp.scores, inp.fres)
         IN  [done |-> TRUE, cands |-> cands,
              related_only |-> Visible(cands, TRUE), all |-> Visible(cands, FALSE)]
    /\ UNCHANGED <<cache, disk, gwVars, pipeVars, catVars, inp>>

\* collect() from the pools to fine_pool: the targets of the coarse stage
\* and, given their coarse results, the targets of the fine stage; each
\* ollama_available() of the fine_pool comprehension may answer either way
ApplySelect ==
    /\ inp.fn = "select"
    /\ ~outp.done
    /\ \E pool \in SUBSET FineEligible(AiTargetsWith(inp.topk, inp.a, inp.rows),
                                       inp.scores) :
          outp' =
            [done |-> TRUE,
             kept |-> Kept(inp.a, inp.rows),
             ai_targets |-> AiTargetsWith(inp.topk, inp.a, inp.rows),
             fine_pool |-> pool]
    /\ UNCHANGED <<cache, disk, gwVars, pipeVars, catVars, inp>>

UnitNext ==
    \/ ApplyNorm
    \/ ApplyFilters
    \/ ApplyPools
    \/ ApplyPolarity
    \/ ApplyRank
    \/ ApplySelect

SpecUnit == UnitInit /\ [][UnitNext]_vars

----------------------------------------------------------------------------
(* Catalogue harness: runs of main() up to the definition space, with the  *)
(* catalogue file replaced and the cache files lost between the runs       *)

CatInit ==
    /\ disk = NoFile
    /\ cache = load_cache(disk)
    /\ prev = NoCall
    /\ last = NoCall
    /\ ncalls = 0
    /\ pc = "idle"
    /\ cfg = NoConfig
    /\ files = NoFiles
    /\ service = "online"
    /\ PipeIdle
    /\ UnitIdle
    /\ nanda_xlsx \in Sources
    /\ rows_cache = Absent
    /\ vec_cache = Absent
    /\ loaded = NotLoaded

\* main(): rows = load_nanda_rows(NANDA_XLSX), then collect():
\* idfmap, def_vecs = build_definition_space(rows)
LoadCatalogue ==
    /\ loaded = NotLoaded
    /\ \E w1, w2 \in WriteOutcomes :
          LET l == load_nanda_rows(nanda_xlsx, rows_cache, w1)
              b == build_definition_space(l.rows, l.rows_cache, vec_cache, w2)
          IN  /\ rows_cache' = l.rows_cache
              /\ IF l.raised
                 THEN /\ loaded' = [kind |-> "raised"]
                      /\ UNCHANGED vec_cache
                 ELSE /\ loaded' = [kind |-> "ok", rows |-> l.rows, rows_from |-> l.rows_from,
                                    idfmap |-> b.idfmap, def_vecs |-> b.def_vecs,
                                    vecs_from |-> b.vecs_from]
                      /\ vec_cache' = b.vec_cache
    /\ UNCHANGED <<cache, disk, gwVars, pipeVars, unitVars, nanda_xlsx>>

\* the process ends
ExitRun ==
    /\ loaded # NotLoaded
    /\ loaded' = NotLoaded
    /\ UNCHANGED <<cache, disk, gwVars, pipeVars, unitVars, nanda_xlsx, rows_cache, vec_cache>>

\* between two runs the catalogue file is replaced, saved again or removed
EditSource ==
    /\ loaded = NotLoaded
    /\ nanda_xlsx' \in Sources \ {nanda_xlsx}
    /\ UNCHANGED <<cache, disk, gwVars, pipeVars, unitVars, rows_cache, vec_cache, loaded>>

\* between two runs a cache file is removed or damaged
LoseRowsCache ==
    /\ loaded = NotLoaded
    /\ rows_cache' \in {Absent, Garbled} \ {rows_cache}
    /\ UNCHANGED <<cache, disk, gwVars, pipeVars, unitVars, nanda_xlsx, vec_cache, loaded>>

LoseVecCache ==
    /\ loaded = NotLoaded
    /\ vec_cache' \in {Absent, Garbled} \ {vec_cache}
    /\ UNCHANGED <<cache, disk, gwVars, pipeVars, unitVars, nanda_xlsx, rows_cache, loaded>>

CatNext ==
    \/ LoadCatalogue
    \/ ExitRun
    \/ EditSource
    \/ LoseRowsCache
    \/ LoseVecCache

SpecCatalogue == CatInit /\ [][CatNext]_vars

----------------------------------------------------------------------------
(* Claims about the gateway (checked under SpecGateway) *)

\* C4: ai_coarse and ai_fine never raise to their caller; for every degraded
\* behaviour of the service (unreachable, timeout, HTTP error, unparsable
\* text, JSON that is no object, a score or matched field of an unexpected
\* type) they return 0.0 and, for ai_fine, empty evidence lists.
C4_NeverRaises ==
    last.fn # "none" =>
        /\ ~last.raised
        /\ last.degraded => (last.ret = 0 /\ last.ev = NoEv)

C6_IdenticalResults ==
    (SameRequestTwice /\ ~prev.hit /\ last.hit) =>
        /\ last.ret = prev.ret
        /\ last.ev = prev.ev

\* C7: a classification call that fails (service unreachable, or no parsed
\* answer after all retries) adds no cache entry; only a call that obtained a
\* parsed answer writes one.
C7_FailedCallsNotCached ==
    last.fn # "none" =>
        /\ last.failed => ~last.wrote
        /\ last.wrote => (last.asks = 1 /\ ~last.failed)

----------------------------------------------------------------------------
(* Claims about a run of main() (checked under Spec) *)

ValidInputs ==
    /\ files.assess.text # <<>>
    /\ files.xlsx.exists
    /\ files.xlsx.rows # <<>>

Aborted == pc \in {"raised", "exit1"}

\* C1: for any non-empty catalogue and any non-empty assessment text,
\* collect() returns a list with at least one candidate, for every outcome of
\* the classifier and either value of the only-related flag.
C1_ReturnsCandidate ==
    ValidInputs =>
        /\ ~Aborted
        /\ pc = "exit0" => Len(ret) >= 1

\* the penalties of a row when no evidence came from the classifier
OfflinePenalty(a, r) ==
    LET m == score_match_blocks(a, r)
    IN  penalty_setting(r, a.settings).p
        + WeakHits(r, Len(m.loose.dc), Len(m.loose.rk)).p
        + penalty_contradict(a, r).p

Ranked(cands) ==
    \A k \in 1..(Len(cands) - 1) :
        /\ cands[k].ai_rank < cands[k + 1].ai_rank
        /\ ~LexGreater(SortKey(cands[k + 1]), SortKey(cands[k]))

C3_ExpiryDoesNotAbort ==
    expired => ~Aborted

\* C8: every entry the in-memory cache holds when a run completes
\* successfully has been written to diagnosis_ai_cache.json, so the next run
\* loads it.
C8_CachePersisted ==
    pc = "exit0" =>
        /\ DOMAIN cache.coarse \subseteq DOMAIN load_cache(disk).coarse
        /\ DOMAIN cache.fine \subseteq DOMAIN load_cache(disk).fine

RECURSIVE SumShown(_)
SumShown(reasons) ==
    IF reasons = <<>> THEN 0
    ELSE (IF Head(reasons).kind = "penalty" THEN Head(reasons).shown ELSE 0)
         + SumShown(Tail(reasons))

Dist(x, y) == IF x >= y THEN x - y ELSE y - x

\* C9: for every returned candidate, score equals W_FINE_AI*ai_sim +
\* W_COARSE_AI*ai_coarse + W_DEF_SIM*def_sim + rule_raw + category bonus minus
\* the sum of the amounts shown on its own penalty annotations, up to
\* rounding (a thousandth).
C9_ScoreMatchesListedPenalties ==
    pc = "exit0" =>
        \A k \in DOMAIN ret :
            LET c == ret[k]
                r == rows[c.row]
            IN  Dist(c.score,
                     Mul(W_FINE_AI, c.ai_sim) + Mul(W_COARSE_AI, c.ai_coarse)
                     + Mul(W_DEF_SIM, c.def_sim) + c.rule_raw
                     + CategoryBonus(row_category_ok(r, assess.cats))
                     - SumShown(c.reasons)) <= 10

\* C10 as stated: the record main() writes has one entry for every scored
\* candidate, that is one per catalogue row, not only those that pass the
\* visibility filter.
C10_OneEntryPerRow ==
    pc = "exit0" =>
        /\ result_json.exists
        /\ {result_json.candidates[k].row : k \in DOMAIN result_json.candidates}
             = Idx(rows)

\* C10 as amended: the record main() writes has one entry for every
\* candidate collect() returned, not only the first SHOW_N the text report
\* shows; with the only-related flag off that is one entry per catalogue row.
C10_EveryReturnedCandidate ==
    pc = "exit0" =>
        /\ result_json.exists
        /\ result_json.candidates = ret
        /\ Len(result_txt.shown) <= SHOW_N
        /\ ~cfg.only_related =>
              /\ Len(result_json.candidates) = Len(rows)
              /\ {result_json.candidates[k].row : k \in DOMAIN result_json.candidates}
                   = Idx(rows)

\* more candidates were returned than the text report shows
C10_Witness ==
    /\ pc = "exit0"
    /\ result_txt.kind = "report"
    /\ Len(ret) > SHOW_N
    /\ Len(result_txt.shown) = SHOW_N
    /\ Len(result_json.candidates) > Len(result_txt.shown)

\* C14: every candidate collect() returns has ai_coarse and ai_sim within
\* [0, 1], whatever score the service replied or the response cache holds.
C14_AiScoresInUnitInterval ==
    pc = "exit0" =>
        \A k \in DOMAIN ret :
            /\ 0 <= ret[k].ai_coarse /\ ret[k].ai_coarse <= One
            /\ 0 <= ret[k].ai_sim /\ ret[k].ai_sim <= One

\* C16: when the assessment input is missing or empty, or the catalogue
\* source is absent, the run aborts before any scoring and before any
\* classifier call: no candidate record is written, the failure message
\* naming the resource is written to the result text, and the process exits
\* with a failure status.
C16_MissingInputAborts ==
    (pc # "idle" /\ (files.assess.text = <<>> \/ ~files.xlsx.exists)) =>
        /\ pc \in {"main", "raised", "exit1"}
        /\ ret = <<>>
        /\ task = <<>>
        /\ cache \in {load_cache(d) : d \in InitDisks}
        /\ ~result_json.exists
        /\ pc = "exit1" =>
              /\ result_txt.kind = "fatal"
              /\ files.assess.text = <<>> =>
                    result_txt.msg = "FileNotFoundError: assessment_final.txt"
              /\ files.assess.text # <<>> =>
                    result_txt.msg = "FileNotFoundError: nanda_db.xlsx"

\* the assessment is there, the catalogue source is not
C16_Witness ==
    /\ pc = "exit1"
    /\ files.assess.text # <<>>
    /\ ~files.xlsx.exists
    /\ result_txt.kind = "fatal"
    /\ ~result_json.exists

----------------------------------------------------------------------------
(* Claims about single functions (checked under SpecUnit) *)

\* C20: normalization is idempotent, norm(norm(x)) = norm(x) for every
\* string x, and norm of the empty string is the empty string.
C20_NormIdempotent ==
    (inp.fn = "norm" /\ outp.done) =>
        /\ outp.twice = outp.once
        /\ inp.x = <<>> => outp.once = <<>>

\* ---- the hard filters and the pools of collect() ----

SexMismatch(i) ==
    \/ inp.a.demo.sex = "M" /\ "female" \in inp.rows[i].sexWords
    \/ inp.a.demo.sex = "F" /\ "male" \in inp.rows[i].sexWords

PoolsDone == inp.fn = "pools" /\ outp.done

\* C11 as stated: with the strict flags on, a row with female-specific
\* vocabulary and a male input (or male-specific vocabulary and a female
\* input) fails the sex filter and is not in the eligible pool.
C11_SexMismatchNotEligible ==
    PoolsDone =>
        \A i \in Idx(inp.rows) :
            SexMismatch(i) => ~outp.sex_ok[i] /\ i \notin outp.eligible

\* C11 amended: such a row fails the sex filter, and it is in the eligible
\* pool exactly when no row of the catalogue passes all four hard filters
\* (the pool then falls back to the whole catalogue).
C11_SexMismatchEligibleOnlyByFallback ==
    PoolsDone =>
        \A i \in Idx(inp.rows) :
            SexMismatch(i) =>
                /\ ~outp.sex_ok[i]
                /\ i \in outp.eligible <=> (\A j \in Idx(inp.rows) : ~outp.hard_ok[j])

\* a male input, a female-specific row left out of the pool, another row in it
C11_Witness ==
    /\ PoolsDone
    /\ inp.a.demo.sex = "M"
    /\ \E i, j \in Idx(inp.rows) :
          /\ "female" \in inp.rows[i].sexWords
          /\ i \notin outp.eligible
          /\ j \in outp.eligible

FiltersDone == inp.fn = "filters" /\ outp.done

\* C12: an input that passes all four hard filters with the strict flags
\* on passes all four with the flags off.
C12_PermissiveNeverStricter ==
    FiltersDone =>
        ((\A k \in 1..4 : outp.strict[k].ok) => (\A k \in 1..4 : outp.permissive[k].ok))

\* an input with an age bound, a sex word and categories that passes all
\* four filters in strict mode
C12_Witness ==
    /\ FiltersDone
    /\ \A k \in 1..4 : outp.strict[k].ok
    /\ inp.row.age_min.known /\ inp.demo.age.known
    /\ inp.row.sexWords # {} /\ inp.demo.sex # "none"
    /\ inp.row.care_family
    /\ inp.row.cats # {} /\ inp.cats # {}

\* C13: for each hard filter, an input that fails it with the flag on
\* passes it with the flag off and carries the same non-empty reason.
C13_PermissiveKeepsReason ==
    FiltersDone =>
        \A k \in 1..4 :
            ~outp.strict[k].ok =>
                /\ outp.permissive[k].ok
                /\ outp.permissive[k].why = outp.strict[k].why
                /\ outp.permissive[k].why # ""

Low(i) ==
    /\ PreDefSim(inp.rows, i) < MIN_DEF_SIM_KEEP
    /\ PreRule(inp.a, inp.rows, i) < MIN_RULE_SCORE_KEEP

\* C19: for a non-empty catalogue the eligible pool and the kept pool are
\* not empty; when no row passes the hard filters the eligible pool is the
\* whole catalogue; when the cutoff drops every eligible row the kept pool
\* is the eligible pool; kept is a subset of eligible.
C19_PoolsNeverEmpty ==
    (PoolsDone /\ inp.rows # <<>>) =>
        /\ outp.eligible # {}
        /\ outp.kept # {}
        /\ outp.kept \subseteq outp.eligible
        /\ (\A i \in Idx(inp.rows) : ~outp.hard_ok[i]) => outp.eligible = Idx(inp.rows)
        /\ (\E i \in Idx(inp.rows) : outp.hard_ok[i]) =>
               outp.eligible = {i \in Idx(inp.rows) : outp.hard_ok[i]}
        /\ (\A i \in outp.eligible : Low(i)) => outp.kept = outp.eligible
        /\ (\E i \in outp.eligible : ~Low(i)) =>
               outp.kept = {i \in outp.eligible : ~Low(i)}

\* both fallbacks at once: no row passes the hard filters and the cutoff
\* would drop every row
C19_Witness ==
    /\ PoolsDone
    /\ Len(inp.rows) = 2
    /\ \A i \in Idx(inp.rows) : ~outp.hard_ok[i] /\ Low(i)
    /\ outp.kept = Idx(inp.rows)


\* ---- polarity of matched terms ----

PolarityDone == inp.fn = "polarity" /\ outp.done

OccursAt(text, e, p) ==
    /\ p >= 0
    /\ p + Len(e) <= Len(text)
    /\ \A k \in 1..Len(e) : text[p + k] = e[k]

\* an OK word lies within the WINDOW characters before position p or the
\* WINDOW characters from it
NegatedAt(text, p) ==
    \E w \in OK_WORDS, q \in 0..Len(text) :
        /\ OccursAt(text, w, q)
        /\ q >= p - WINDOW
        /\ q + Len(w) <= p + WINDOW

InList(x, seq) == \E k \in DOMAIN seq : seq[k] = x

Matched(t) == outp.found[t] # -1

Affirmed(terms) ==
    Cardinality({k \in DOMAIN terms :
                    Matched(terms[k]) /\ ~NegatedAt(outp.t, outp.found[terms[k]])})

RankDone == inp.fn = "rank" /\ outp.done

Positions == DOMAIN outp.cands

OnePerRow ==
    /\ Len(outp.cands) = Len(inp.rows)
    /\ \A i \in Idx(inp.rows) : Cardinality({k \in Positions : outp.cands[k].row = i}) = 1
    /\ \A k \in Positions : outp.cands[k].ai_rank = k

RECURSIVE LexGe(_, _)
LexGe(x, y) ==
    IF x = <<>> THEN TRUE
    ELSE IF Head(x) # Head(y) THEN Head(x) > Head(y)
         ELSE LexGe(Tail(x), Tail(y))

Bit(b) == IF b THEN 1 ELSE 0

FieldTuple(c) ==
    <<Bit(c.related), c.score, c.ai_sim, c.ai_coarse, c.def_sim, c.rule_raw>>

\* the fields as the sort compares them: to three decimals (def_sim to four)
RoundedTuple(c) ==
    <<Bit(c.related), RoundTo(c.score, 10), RoundTo(c.ai_sim, 10),
      RoundTo(c.ai_coarse, 10), RoundTo(c.def_sim, 1), RoundTo(c.rule_raw, 10)>>

RelatedFirst ==
    \A j, k \in Positions : (outp.cands[j].related /\ ~outp.cands[k].related) => j < k

ShownRanks == {k \in Positions : outp.cands[k].related /\ outp.cands[k].score > 0}

FallbackLength ==
    LET n == Len(outp.cands)
        part == CHOOSE m \in 0..n : m * One <= n * OUT_TOP_FRAC /\ (m + 1) * One > n * OUT_TOP_FRAC
        want == IF part > 3 THEN part ELSE 3
    IN  IF want > n THEN n ELSE want

\* C18: with only-related on, the returned list is the related candidates
\* with a positive score in rank order when there is one, and otherwise the
\* first max(3, floor(N * OUT_TOP_FRAC)) candidates (all N when that is more
\* than N); with the flag off it is all N candidates.
C18_VisibleCandidates ==
    RankDone =>
        /\ ShownRanks # {} =>
              /\ Len(outp.related_only) = Cardinality(ShownRanks)
              /\ \A j \in DOMAIN outp.related_only :
                    /\ outp.related_only[j].ai_rank \in ShownRanks
                    /\ outp.related_only[j] = outp.cands[outp.related_only[j].ai_rank]
                    /\ j > 1 => outp.related_only[j - 1].ai_rank < outp.related_only[j].ai_rank
        /\ ShownRanks = {} =>
              /\ Len(outp.related_only) = FallbackLength
              /\ \A j \in DOMAIN outp.related_only : outp.related_only[j] = outp.cands[j]
        /\ outp.all = outp.cands

\* no candidate is related and the fraction of the catalogue exceeds three
C18_Witness ==
    /\ RankDone
    /\ ShownRanks = {}
    /\ Len(outp.related_only) > 3
    /\ Len(outp.related_only) < Len(outp.cands)

\* ---- scores and the related flag of a candidate ----

RowOf(c) == inp.rows[c.row]

\* C21: a candidate for which a stage obtained no classifier result has
\* score 0 for that stage: ai_coarse is 0 for a row that was no coarse
\* target, and ai_sim is 0 unless the fine stage returned a result for the
\* row, also when the row was accepted early on its coarse score.
C21_UnclassifiedScoresZero ==
    RankDone =>
        \A k \in Positions :
            LET c == outp.cands[k]
            IN  /\ c.row \notin AiTargets(inp.a, inp.rows) => c.ai_coarse = 0
                /\ ~inp.fres[c.row].got => c.ai_sim = 0

SumOfListedPenalties(c) ==
    LET r == RowOf(c)
    IN  penalty_setting(r, inp.a.settings).p + penalty_contradict(inp.a, r).p
        + WeakHits(r, Len(c.loose.dc) + Len(c.ai_ev.dc), Len(c.loose.rk) + Len(c.ai_ev.rk)).p

TotalOf(c) ==
    (W_FINE_AI * c.ai_sim) \div One + (W_COARSE_AI * c.ai_coarse) \div One
    + (W_DEF_SIM * c.def_sim) \div One + c.rule_raw
    + (IF CatMatched(inp.a, RowOf(c)) THEN W_CAT_MATCH ELSE 0)
    - SumOfListedPenalties(c)

PassedHardFilters(c) ==
    /\ row_care_target_ok(RowOf(c), inp.a.demo).ok
    /\ row_age_ok(RowOf(c), inp.a.demo).ok
    /\ row_sex_ok(RowOf(c), inp.a.demo).ok
    /\ row_category_ok(RowOf(c), inp.a.cats).ok

Crosses(vital, limit) == vital.known /\ vital.v < limit

\* C23: the hint bonus is part of rule_raw only when the priority hint is
\* respiratory and SpO2 is below 90, or circulatory and MAP is below 65; a
\* hint whose vital is unknown or not below its threshold adds nothing, so
\* rule_raw is then the weighted affirmed hits plus the pain-scale bonus.
C23_HintBonusOnlyWhenVitalCrosses ==
    RankDone =>
        \A k \in Positions :
            LET c == outp.cands[k]
                r == RowOf(c)
                hits == W_RULE_DC * Len(c.loose.dc) + W_RULE_RF * Len(c.loose.rf)
                        + W_RULE_RK * Len(c.loose.rk)
                danger == \/ "resp" \in r.hint /\ Crosses(inp.a.SpO2, 90)
                          \/ "circ" \in r.hint /\ Crosses(inp.a.MAP, 65)
            IN  ~danger => c.rule_raw = hits + NrsBonus(inp.a, r)

----------------------------------------------------------------------------
(* Claims: the two worker stages *)

InStage == pc \in {"coarse", "fine"}

\* a classifier call is in flight for task i from the cache miss to the
\* return of ai_coarse / ai_fine
InFlight(i) == InStage /\ task[i] = "running"

\* C24: once the budget of a stage is exhausted, no classifier call that
\* had not started yet is started: a task still queued when as_completed
\* timed out never goes to the service.
C24_NoCallStartedAfterExpiry ==
    [][\A i \in DOMAIN task :
          (InStage /\ expired /\ task[i] = "queued") => task'[i] # "running"]_vars

InFlightBounded ==
    /\ pc = "coarse" => Running <= Max2(1, cfg.coarse_concurrency)
    /\ pc = "fine" => Running <= Max2(1, cfg.fine_concurrency)

\* a stage is left, and the orchestration outside the stages runs, only
\* with no worker active
StagesApart == (~InStage \/ pc' # pc) => (Running = 0 /\ Running' = 0)

\* pre-scoring, filtering and selection (task, fine_pool are set), the
\* assembly after the stages, sorting and the visible list (ret is set)
OrchestrationAlone ==
    (fine_pool' # fine_pool \/ ret' # ret \/ DOMAIN task' # DOMAIN task)
        => (Running = 0 /\ Running' = 0)

\* out[i] = build_cand(i, ai_coarse_s[i], s, ev) for a fine result
AssembledFine(i) ==
    /\ i \in DOMAIN fine_res /\ i \in DOMAIN fine_res'
    /\ ~fine_res[i].got /\ fine_res'[i].got

\* C25 as stated: at most max(1, COARSE_CONCURRENCY) coarse and
\* max(1, FINE_CONCURRENCY) fine calls are in flight, the stages never
\* overlap, and pre-scoring, filtering, selection, score assembly and
\* sorting run only while no worker is active.
C25_OrchestrationOnlyWhileIdle ==
    [][/\ InFlightBounded'
       /\ StagesApart
       /\ OrchestrationAlone
       /\ \A i \in DOMAIN task : AssembledFine(i) => Running' = 0]_vars

\* C25, amended: the bounds on the calls in flight hold, the stages never
\* overlap, and pre-scoring, filtering, selection, the assembly after the
\* stages and sorting run only while no worker is active; the candidate of
\* a fine result is assembled by the orchestrating thread as the result
\* arrives, in the fine stage only, possibly while other fine workers run.
C25_BoundedStagesApart ==
    [][/\ InFlightBounded'
       /\ StagesApart
       /\ OrchestrationAlone
       /\ \A i \in DOMAIN task : AssembledFine(i) => (pc = "fine" /\ pc' = "fine")]_vars

\* a fine result has been assembled while another fine call is in flight
C25_Witness ==
    /\ pc = "fine"
    /\ \E i, j \in DOMAIN task : InFlight(i) /\ fine_res[j].got

\* C29: under any interleaving the classifier is called at most once per
\* cache key: two workers whose targets have the same key never both miss
\* the cache and both have a call in flight.
C29_OneCallPerKey ==
    \A i, j \in DOMAIN task :
        (i # j /\ InFlight(i) /\ InFlight(j)) =>
            /\ pc = "coarse" => CoarseKeyOf(i) # CoarseKeyOf(j)
            /\ pc = "fine" => FineKeyOf(i) # FineKeyOf(j)

\* the coarse entries of the cache file the process loaded at import
Loaded == load_cache(disk)

\* C28: the cache is consulted before any network request: a classifier
\* target whose coarse answer the cache holds is given the cached score
\* without the service being contacted first, also when the service cannot
\* be reached.
C28_CachedScoreUsed ==
    pc = "exit0" =>
        \A k \in DOMAIN ret :
            (/\ ret[k].row \in AiTargets(assess, rows)
             /\ HasKey(Loaded.coarse, CoarseKeyOf(ret[k].row)))
            => ret[k].ai_coarse = CoarseHit(Loaded, CoarseKeyOf(ret[k].row)).ret

\* C30: with the strict filters on and only related candidates asked for,
\* no candidate that fails a hard filter is in the list collect() returns,
\* also when the visible list is the fallback prefix.
C30_NoHardFilterFailureReturned ==
    (pc = "exit0" /\ cfg.only_related) =>
        \A k \in DOMAIN ret :
            /\ row_care_target_ok(rows[ret[k].row], assess.demo).ok
            /\ row_age_ok(rows[ret[k].row], assess.demo).ok
            /\ row_sex_ok(rows[ret[k].row], assess.demo).ok
            /\ row_category_ok(rows[ret[k].row], assess.cats).ok

----------------------------------------------------------------------------
(* Claims: the targets of the two classifier stages (SpecUnit) *)

SelectDone == inp.fn = "select" /\ outp.done

QuickOf(i) == quick_score(inp.a, inp.rows, i)

\* the number of targets whose coarse score is above that of i
CoarseAbove(i) == Cardinality({j \in outp.ai_targets : inp.scores[j] > inp.scores[i]})

\* n is ceil(0.6 * the number of coarse targets)
IsSixtyPercent(n) ==
    /\ 10 * n >= 6 * Cardinality(outp.ai_targets)
    /\ 10 * (n - 1) < 6 * Cardinality(outp.ai_targets)

\* C27: the coarse classifier is invoked only for the top AI_TOPK rows of
\* the kept pool by quick score (for none when AI_TOPK <= 0), the fine
\* classifier only for coarse targets within the top ceil(60%) by coarse
\* score whose coarse score is at least COARSE_MIN_PASS: the fine targets
\* are coarse targets and the coarse targets are kept rows.
C27_TargetsAreTopOfPool ==
    SelectDone =>
        /\ outp.fine_pool \subseteq outp.ai_targets
        /\ outp.ai_targets \subseteq outp.kept
        /\ inp.topk <= 0 => outp.ai_targets = {}
        /\ inp.topk > 0 =>
              Cardinality(outp.ai_targets) = Min2(inp.topk, Cardinality(outp.kept))
        /\ \A i \in outp.ai_targets, j \in outp.kept \ outp.ai_targets :
              QuickOf(j) <= QuickOf(i)
        /\ \A i \in outp.fine_pool :
              /\ inp.scores[i] >= COARSE_MIN_PASS
              /\ \E n \in 1..Cardinality(outp.ai_targets) :
                    IsSixtyPercent(n) /\ CoarseAbove(i) < n

\* three coarse targets passed the threshold and the fine pool holds the
\* two the cut admits
C27_Witness ==
    /\ SelectDone
    /\ Cardinality(outp.ai_targets) = AI_TOPK + 1
    /\ \A i \in outp.ai_targets : inp.scores[i] >= COARSE_MIN_PASS
    /\ Cardinality(outp.fine_pool) = 2

----------------------------------------------------------------------------
(* Claims: the caches of the catalogue (SpecCatalogue) *)

\* a run has loaded the catalogue and its definition space in this step
LoadStep == loaded = NotLoaded /\ loaded'.kind = "ok"

\* the vector of each row, computed from the rows the run uses
VectorsOf(rs) ==
    [i \in DOMAIN rs |->
        tfidf_vec(tokenize(nfkc(rs[i].definition)), idf(DefTokens(rs)))]

\* C26: load_nanda_rows returns cached rows only if the signature in the
\* row cache equals the current signature of the source, and otherwise
\* parses the source again and rewrites the row cache;
\* build_definition_space returns cached vectors only if the signature in
\* the vector cache equals that same current signature; so the idf map and
\* the vectors always belong to the rows in use, one vector per row.
C26_CachesFollowSource ==
    [][LoadStep =>
        /\ loaded'.rows_from = "cache" =>
              (rows_cache.kind = "json" /\ rows_cache.sig = file_sig(nanda_xlsx))
        /\ loaded'.rows_from # "cache" =>
              /\ loaded'.rows = ParseSheet(nanda_xlsx)
              /\ rows_cache' = [kind |-> "json", sig |-> file_sig(nanda_xlsx),
                                rows |-> ParseSheet(nanda_xlsx)]
        /\ loaded'.vecs_from = "cache" =>
              (vec_cache.kind = "pickle" /\ vec_cache.sig = file_sig(nanda_xlsx))
        /\ loaded'.rows = ParseSheet(nanda_xlsx)
        /\ loaded'.idfmap = idf(DefTokens(loaded'.rows))
        /\ DOMAIN loaded'.def_vecs = DOMAIN loaded'.rows
        /\ loaded'.def_vecs = VectorsOf(loaded'.rows)]_vars

\* a run took both the rows and the vectors of a two-row catalogue from
\* the caches
C26_Witness ==
    /\ loaded.kind = "ok"
    /\ loaded.rows_from = "cache"
    /\ loaded.vecs_from = "cache"
    /\ Len(loaded.rows) = 2

============================================================================
